---- MODULE Spec2Model ----
(***************************************************************************)
(* Model of the granola-ingest pipeline: MeetingDataIngestor               *)
(* (startMonitoring, readAndParseCache, processCache, processChunk), the   *)
(* StateTrackingService change detector, the HistoryTracker and the        *)
(* per-entity upsert services, over an SQLite store.                       *)
(*                                                                         *)
(* Scheduling: the program is a single-threaded event loop.  Every `await` *)
(* is a point where another pending callback may run, so each action below *)
(* is the synchronous code between two awaits, and the pending callbacks   *)
(* interleave in any order.                                                *)
(***************************************************************************)
EXTENDS Integers, Sequences, FiniteSets, Bags, TLC

VARIABLES
  family,               \* the family of contents the snapshot file takes in this behaviour
  file,                 \* content of the snapshot file at cachePath
  nWrites,              \* number of rewrites of the snapshot file so far
  mainPc,               \* position of startMonitoring
  instance,             \* DatabaseConnection.instance: "none" or "open"
  watcher,              \* this.watcher is registered
  runs,                 \* pipeline runs: the initial load (0) and one per notification
  lastKnownState,       \* StateTrackingService.lastKnownState
  documents,            \* table documents
  historical_documents, \* table historical_documents, in insertion order
  document_state_hashes,\* table document_state_hashes
  calendar_events,      \* table calendar_events
  people,               \* table people
  transcript_entries,   \* table transcript_entries
  lastCall,             \* the last Change Detector call and its outcome
  lastSeen,             \* the fingerprint most recently observed under each key
  loop,                 \* processCache's chunk loop over a long document list
  retrieval,            \* the clock of the store and the last getDocumentHistory call
  connection            \* DatabaseConnection's static fields and the handles it opened

vars == <<family, file, nWrites, mainPc, instance, watcher, runs, lastKnownState,
          documents, historical_documents, document_state_hashes,
          calendar_events, people, transcript_entries, lastCall, lastSeen, loop,
          retrieval, connection>>

tables == <<documents, historical_documents, document_state_hashes,
            calendar_events, people, transcript_entries>>

-----------------------------------------------------------------------------
(* Bounds and program constants *)

MaxChanges == 2

MaxActive == 2

CHUNK_SIZE == 100

RunIds == 0..MaxChanges

DocIds == {"d1", "d2"}

\* no snapshot of the model holds more documents than there are identifiers
MaxDocs == Cardinality(DocIds)

InvalidPath == "/invalid/path/db.sqlite"

DbPaths == {"test.db", "other.db", InvalidPath}

\* mkdirSync of the directory and new Database(dbPath, {create: true}) succeed
CanOpen(dbPath) == dbPath # InvalidPath

-----------------------------------------------------------------------------
(* Snapshot contents *)

NoCal == [has |-> FALSE, id |-> "", summary |-> "", attendees |-> <<>>]

Cal(id, summary, attendees) ==
  [has |-> TRUE, id |-> id, summary |-> summary, attendees |-> attendees]

\* an attendee of a calendar event; organizer is the attendee's organizer flag
Attendee(email, name, organizer) ==
  [email |-> email, displayName |-> name, organizer |-> organizer]

\* a parsed document object: keys lists its own keys in insertion order, so a
\* field is absent when its key is not listed (subscription_plan_id here)
Doc(id, title, type, content, cal) ==
  [id |-> id, title |-> title, type |-> type, content |-> content,
   subscription_plan_id |-> "null", cal |-> cal,
   keys |-> <<"id", "title", "type", "content">>]

\* { ...doc, subscription_plan_id: v }
WithPlan(doc, v) ==
  [doc EXCEPT !.subscription_plan_id = v, !.keys = Append(@, "subscription_plan_id")]

\* the same fields and values written with title before id
Reordered(doc) ==
  [doc EXCEPT !.keys = <<"title", "id">> \o SubSeq(@, 3, Len(@))]

Entry(id, text) == [id |-> id, text |-> text]

NoEntries == [d \in DocIds |-> [has |-> FALSE, entries |-> <<>>]]

\* data.state.templates[doc.id]: the three lists of template records
Templates(panel_templates, template_sections, document_panels) ==
  [has |-> TRUE, panel_templates |-> panel_templates,
   template_sections |-> template_sections, document_panels |-> document_panels]

NoTemplates ==
  [d \in DocIds |-> [Templates(<<>>, <<>>, <<>>) EXCEPT !.has = FALSE]]

OkFile(docs, transcripts, templates) ==
  [kind |-> "ok", shape |-> "object", docs |-> docs, transcripts |-> transcripts,
   templates |-> templates]

BadFile(kind) ==
  [kind |-> kind, shape |-> "none", docs |-> <<>>, transcripts |-> NoEntries,
   templates |-> NoTemplates]

\* the snapshot with state.documents written as an array of the documents
AsArray(f) == [f EXCEPT !.shape = "array"]

\* a snapshot whose state.documents is a number (5) or the boolean true
Primitive(shape) == [OkFile(<<>>, NoEntries, NoTemplates) EXCEPT !.shape = shape]

FileInitial == OkFile(<<Doc("d1", "t1", "a", "c1", NoCal)>>, NoEntries, NoTemplates)

FileUpdated ==
  OkFile(<<Doc("d1", "t2", "a", "c1", NoCal), Doc("d2", "t1", "a", "c1", NoCal)>>,
         NoEntries, NoTemplates)

FileTypeOnly == OkFile(<<Doc("d1", "t1", "b", "c1", NoCal)>>, NoEntries, NoTemplates)

FileContentOnly == OkFile(<<Doc("d1", "t1", "a", "c2", NoCal)>>, NoEntries, NoTemplates)

\* FileInitial with subscription_plan_id: null added to the document
FileNullPlan ==
  OkFile(<<WithPlan(Doc("d1", "t1", "a", "c1", NoCal), "null")>>, NoEntries, NoTemplates)

FileUpdatedArray == AsArray(FileUpdated)

FileNumber == Primitive("number")

FileTrue == Primitive("true")

\* a valid snapshot with no documents
FileEmpty == OkFile(<<>>, NoEntries, NoTemplates)

\* two documents, the second one with two panel templates and a section
FileBatch ==
  OkFile(<<Doc("d1", "t1", "a", "c1", NoCal), Doc("d2", "t1", "a", "c1", NoCal)>>,
         NoEntries,
         [NoTemplates EXCEPT !["d2"] = Templates(<<"p1", "p2">>, <<"s1">>, <<>>)])

\* a document whose templates hold a section but no panel template
FileSections ==
  OkFile(<<Doc("d1", "t1", "a", "c1", NoCal)>>, NoEntries,
         [NoTemplates EXCEPT !["d1"] = Templates(<<>>, <<"s1">>, <<>>)])

\* a document whose templates hold a document panel only
FilePanels ==
  OkFile(<<Doc("d1", "t1", "a", "c1", NoCal)>>, NoEntries,
         [NoTemplates EXCEPT !["d1"] = Templates(<<>>, <<>>, <<"dp1">>)])

\* a document whose event has two attendees, the organizer and one without
\* a display name, and whose transcript has two lines
FileCrowd ==
  OkFile(<<Doc("d1", "t1", "a", "c1",
               Cal("e1", "s1", <<Attendee("x", "X", TRUE), Attendee("y", "", FALSE)>>))>>,
         [NoEntries EXCEPT !["d1"] =
            [has |-> TRUE, entries |-> <<Entry("l1", "hello"), Entry("l2", "bye")>>]],
         NoTemplates)

\* a document with a calendar event, an attendee and a transcript line
FileRich ==
  OkFile(<<Doc("d1", "t1", "a", "c1", Cal("e1", "s1", <<Attendee("x", "X", FALSE)>>))>>,
         [NoEntries EXCEPT !["d1"] = [has |-> TRUE, entries |-> <<Entry("l1", "hello")>>]],
         NoTemplates)

\* the same with the event's summary and the line's text edited
FileRichEdited ==
  OkFile(<<Doc("d1", "t1", "a", "c1", Cal("e1", "s2", <<Attendee("x", "X", FALSE)>>))>>,
         [NoEntries EXCEPT !["d1"] = [has |-> TRUE, entries |-> <<Entry("l1", "bye")>>]],
         NoTemplates)

BadKinds == {"empty", "notjson", "nocache", "innerbad", "nostate", "nodocs"}

Files ==
  {FileInitial, FileUpdated, FileTypeOnly, FileContentOnly, FileEmpty, FileBatch,
   FileRich, FileRichEdited, FileNullPlan, FileUpdatedArray, FileNumber, FileTrue,
   FileSections, FilePanels, FileCrowd}
    \cup {BadFile(k) : k \in BadKinds}

Families ==
  {"suite", "fields", "malformed", "batch", "entities", "nulls", "shapes", "signals", "load",
   "faults", "panels", "crowd", "nodb"}

\* the contents the snapshot file is rewritten with within one family; a
\* termination signal is only delivered in the family "signals", a
\* statement of the history recorder only fails in the family "faults", and
\* the database path cannot be opened in the family "nodb"
FilesOf(fam) ==
  CASE fam = "suite"  -> {FileInitial, FileUpdated}
    [] fam = "fields" -> {FileInitial, FileTypeOnly, FileContentOnly}
    [] fam = "malformed" -> {FileInitial} \cup {BadFile(kind) : kind \in BadKinds}
    [] fam = "batch"  -> {FileEmpty, FileBatch}
    [] fam = "entities" -> {FileRich, FileRichEdited}
    [] fam = "nulls" -> {FileInitial, FileNullPlan}
    [] fam = "shapes" -> {FileNumber, FileTrue}
    [] fam = "signals" -> {FileInitial}
    [] fam = "load" -> {FileUpdated}
    [] fam = "faults" -> {FileUpdated}
    [] fam = "panels" -> {}
    [] fam = "crowd" -> {}
    [] fam = "nodb" -> {}

\* the contents the snapshot file may have when the program starts
InitialOf(fam) ==
  CASE fam = "suite" -> {FileInitial}
    [] fam = "fields" -> {FileInitial}
    [] fam = "entities" -> {FileRich}
    [] fam = "faults" -> {FileInitial}
    [] fam = "panels" -> {FileSections, FilePanels}
    [] fam = "crowd" -> {FileCrowd}
    [] fam = "nodb" -> {FileInitial}
    [] fam = "shapes" -> {FileUpdatedArray, FileNumber, FileTrue}
    [] OTHER -> FilesOf(fam)

-----------------------------------------------------------------------------
(* Maps: a keyed table of the store is a set of [key, val] entries *)

Undefined == <<>>

\* the value of the row with key k, if the table has one
Get(m, k) == IF \E e \in m : e.key = k THEN (CHOOSE e \in m : e.key = k).val ELSE Undefined

Has(m, k) == \E e \in m : e.key = k

\* INSERT ... ON CONFLICT (key) DO UPDATE
Put(m, k, v) == {e \in m : e.key # k} \cup {[key |-> k, val |-> v]}

-----------------------------------------------------------------------------
(* Serialisation and hashing *)

RECURSIVE StringifyAttendees(_)
StringifyAttendees(as) ==
  IF as = <<>> THEN <<>>
  ELSE <<"email", Head(as).email, "displayName", Head(as).displayName,
         "organizer", Head(as).organizer>>
         \o StringifyAttendees(Tail(as))

\* JSON.stringify(eventObj); document_id is set by processChunk before the
\* calendar check and is absent while the owning document is serialised
StringifyEvent(cal, withDocId, docId) ==
  <<"id", cal.id, "summary", cal.summary, "attendees">>
    \o StringifyAttendees(cal.attendees)
    \o (IF withDocId THEN <<"document_id", docId>> ELSE <<>>)

\* the value of an own key of the document
ValueOf(doc, k) ==
  CASE k = "id" -> doc.id
    [] k = "title" -> doc.title
    [] k = "type" -> doc.type
    [] k = "content" -> doc.content
    [] k = "subscription_plan_id" -> doc.subscription_plan_id

\* JSON.stringify walks the own keys in insertion order
RECURSIVE StringifyFields(_, _)
StringifyFields(doc, keys) ==
  IF keys = <<>> THEN <<>>
  ELSE <<Head(keys), ValueOf(doc, Head(keys))>> \o StringifyFields(doc, Tail(keys))

\* a faulty variant: keys holding null are dropped, as a normalising
\* serialiser would do
StringifyDocumentNoNulls(doc) ==
  StringifyFields(doc, SelectSeq(doc.keys, LAMBDA k : ValueOf(doc, k) # "null"))
    \o (IF doc.cal.has
          THEN <<"google_calendar_event">> \o StringifyEvent(doc.cal, FALSE, doc.id)
          ELSE <<>>)

\* JSON.stringify(doc): every field of the parsed object, nested event included
StringifyDocument(doc) ==
  StringifyFields(doc, doc.keys)
    \o (IF doc.cal.has
          THEN <<"google_calendar_event">> \o StringifyEvent(doc.cal, FALSE, doc.id)
          ELSE <<>>)

StringifyEntry(entry) == <<"id", entry.id, "text", entry.text>>

StringifyPerson(person) ==
  <<"id", person.id, "document_id", person.document_id, "email", person.email,
    "name", person.name, "role", person.role>>

\* HashUtil.getHash: a digest, taken to be collision free
getHash(data) == <<"h64">> \o data

\* HistoryTracker.getDocumentHash: the joined tracked fields only
getDocumentHash(doc) == getHash(<<doc.title>>)

-----------------------------------------------------------------------------
(* Snapshot Reader *)

\* readAndParseCache: does it return (TRUE) or throw (FALSE)
readAndParseCacheOk(f) == f.kind \notin {"empty", "notjson", "nocache", "innerbad"}

\* a faulty variant: the guard on data.state.documents left out
hasStateDocumentsUnguarded(data) == TRUE

\* processCache: data?.state?.documents is present
hasStateDocuments(data) == data.kind \notin {"nostate", "nodocs"}

\* the id-keyed object holding the documents, as its entries in insertion order
ObjectOf(docs) == [i \in 1..Len(docs) |-> [key |-> docs[i].id, val |-> docs[i]]]

\* Object.values(o): the values in insertion order (the keys are not
\* integer-like, so none is moved to the front)
ObjectValues(o) == [i \in 1..Len(o) |-> o[i].val]

\* a faulty variant: only an array is taken as the documents
documentsOfArrayOnly(data) == IF data.shape = "array" THEN data.docs ELSE <<>>

\* processCache: Array.isArray(documents) ? documents : Object.values(documents);
\* a number or a boolean has no own enumerable property
documentsOf(data) ==
  CASE data.shape = "array" -> data.docs
    [] data.shape = "object" -> ObjectValues(ObjectOf(data.docs))
    [] OTHER -> <<>>

-----------------------------------------------------------------------------
(* Change Detector (StateTrackingService) *)

\* changed = hash !== stored
hasChanged(stored, hash) == hash # stored

\* the property name that reads and writes an object's prototype
ProtoKey == "__proto__"

\* a value that is an object (Object.prototype, String.prototype), never a
\* fingerprint
AnObject == <<"object">>

\* Object.prototype.__proto__
JsNull == <<"null">>

\* an own object without properties
EmptyObject == <<"{}">>

\* lastKnownState: four plain objects, each a set of [key, val] entries of
\* its own properties (a nested map's entry has the key <<docId, id>>, a
\* nested map without entries the key <<docId>>); prototype holds the
\* properties the program has added to Object.prototype, which every plain
\* object inherits
EmptyState == [documentHashes |-> {}, calendarHashes |-> {},
               transcriptHashes |-> {}, personHashes |-> {}, prototype |-> {}]

\* the object has an own property docId
OwnMap(m, docId) == \E e \in m : Head(e.key) = docId

\* the value the new hash is compared with: documentHashes[doc.id],
\* calendarHashes[docId], (transcriptHashes[docId] || {})[entry.id],
\* (personHashes[docId] || {})[person.id].  A property read goes to the own
\* property and else up the prototype chain; __proto__ reads the prototype
storedUnder(state, field, key) ==
  LET last == key[Len(key)]
      inherited == Get(state.prototype, <<last>>)
  IN IF Len(key) = 2 /\ key[1] = ProtoKey
       THEN (IF last = ProtoKey THEN JsNull ELSE inherited)
       ELSE IF last = ProtoKey THEN AnObject
       ELSE IF Has(state[field], key) THEN Get(state[field], key)
       ELSE inherited

\* xHashes[docId] is not an own property but an inherited string
inheritedOwner(state, field, key) ==
  /\ Len(key) = 2
  /\ key[1] # ProtoKey
  /\ ~OwnMap(state[field], key[1])
  /\ Has(state.prototype, <<key[1]>>)

\* the write of a changed nested fingerprint throws: xHashes[docId] is an
\* inherited string, `!xHashes[docId]` is false and the assignment of a
\* property to a string is a TypeError in module code; the assignment to
\* __proto__ goes to the setter, which ignores a string and throws nothing
storeThrows(state, field, key, hash) ==
  /\ inheritedOwner(state, field, key)
  /\ key[2] # ProtoKey
  /\ hasChanged(storedUnder(state, field, key), hash)

\* a faulty variant: storing a fingerprint drops the other entries
storeAfterForgetful(state, field, key, hash) ==
  IF hasChanged(storedUnder(state, field, key), hash)
    THEN [state EXCEPT ![field] = {[key |-> key, val |-> hash]}]
    ELSE state

\* lastKnownState after the call: written only when changed.  An assignment
\* to __proto__ of a string stores nothing; with docId "__proto__" the nested
\* map is Object.prototype itself, so the fingerprint becomes a property of
\* Object.prototype
storeAfter(state, field, key, hash) ==
  LET last == key[Len(key)]
      m == state[field]
  IN IF ~hasChanged(storedUnder(state, field, key), hash) THEN state
     ELSE IF storeThrows(state, field, key, hash) THEN state
     ELSE IF Len(key) = 2 /\ key[1] = ProtoKey
       THEN (IF last = ProtoKey THEN state
             ELSE [state EXCEPT !.prototype = Put(@, <<last>>, hash)])
     ELSE IF Len(key) = 1
       THEN (IF last = ProtoKey THEN state ELSE [state EXCEPT ![field] = Put(m, key, hash)])
     ELSE IF last = ProtoKey
       THEN (IF OwnMap(m, key[1]) \/ inheritedOwner(state, field, key) THEN state
             ELSE [state EXCEPT ![field] = m \cup {[key |-> <<key[1]>>, val |-> EmptyObject]}])
     ELSE [state EXCEPT ![field] = Put({e \in m : e.key # <<key[1]>>}, key, hash)]

-----------------------------------------------------------------------------
(* Store operations *)

\* a faulty variant: a plain INSERT with no conflict clause on a table
\* without a key
upsertDocumentAppend(tbl, doc) ==
  tbl \cup {[key |-> doc.id, val |-> [id |-> doc.id, title |-> doc.title, type |-> doc.type]]}

\* DocumentService.upsertDocument: INSERT .. ON CONFLICT (id) DO UPDATE SET title ..
upsertDocument(tbl, doc) ==
  IF Has(tbl, doc.id)
    THEN Put(tbl, doc.id, [Get(tbl, doc.id) EXCEPT !.title = doc.title])
    ELSE Put(tbl, doc.id, [id |-> doc.id, title |-> doc.title, type |-> doc.type])

\* CalendarService.upsertCalendarEvent: ON CONFLICT (id) DO UPDATE SET summary ..
upsertCalendarEvent(tbl, ev, docId) ==
  IF Has(tbl, ev.id)
    THEN Put(tbl, ev.id, [Get(tbl, ev.id) EXCEPT !.summary = ev.summary])
    ELSE Put(tbl, ev.id, [id |-> ev.id, document_id |-> docId, summary |-> ev.summary])

\* PersonService.upsertPerson
upsertPerson(tbl, person) ==
  IF Has(tbl, person.id)
    THEN Put(tbl, person.id,
             [Get(tbl, person.id) EXCEPT !.email = person.email, !.name = person.name,
                                         !.role = person.role])
    ELSE Put(tbl, person.id, person)

\* TranscriptService.upsertTranscriptEntry: ON CONFLICT (id) DO UPDATE SET text ..
upsertTranscriptEntry(tbl, docId, entry) ==
  IF Has(tbl, entry.id)
    THEN Put(tbl, entry.id, [Get(tbl, entry.id) EXCEPT !.text = entry.text])
    ELSE Put(tbl, entry.id, [id |-> entry.id, document_id |-> docId, text |-> entry.text])

\* the row bound by insertHistory: the document handed to trackDocumentHistory;
\* history_timestamp defaults to CURRENT_TIMESTAMP, the clock in whole seconds
historyRecord(uuid, doc, now) ==
  [id |-> uuid, document_id |-> doc.id, title |-> doc.title, type |-> doc.type,
   history_timestamp |-> now]

\* a faulty variant: the new row replaces the earlier rows of its document
insertHistoryReplacing(tbl, row) ==
  Append(SelectSeq(tbl, LAMBDA h : h.document_id # row.document_id), row)

\* preparedStatements.insertHistory: INSERT INTO historical_documents (..) VALUES (..)
insertHistory(tbl, row) == Append(tbl, row)

\* a faulty variant: the hash statement is left out of the transaction
updateHashSkipped(tbl, documentId, hash) == tbl

\* preparedStatements.updateHash: INSERT .. ON CONFLICT (document_id) DO
\* UPDATE SET content_hash = excluded.content_hash
updateHash(tbl, documentId, hash) == Put(tbl, documentId, hash)

fieldsToCheck ==
  <<"title", "notes_markdown", "notes_plain", "updated_at", "deleted_at", "public",
    "valid_meeting", "has_shareable_link", "privacy_mode_enabled">>

\* doc[field] of the parsed document: of the fields checked the documents
\* of the snapshots carry the title only, the others are undefined
docField(doc, field) == IF field = "title" THEN doc.title ELSE "undefined"

\* lastDoc[field] of the documents row: a column bound to undefined holds NULL
rowField(row, field) == IF field = "title" THEN row.title ELSE "null"

\* HistoryTracker.detectChangedFields(doc, lastHash), tbl being the
\* documents table read by getDocumentFromId
detectChangedFields(doc, lastHash, tbl) ==
  IF lastHash = Undefined THEN <<"initial_creation">>
  ELSE IF lastHash = getDocumentHash(doc) THEN <<>>
  ELSE IF ~Has(tbl, doc.id) THEN <<"data_changed">>
  ELSE SelectSeq(fieldsToCheck,
                 LAMBDA field :
                   /\ docField(doc, field) # rowField(Get(tbl, doc.id), field)
                   /\ (docField(doc, field) # "null" \/ rowField(Get(tbl, doc.id), field) # "null"))

\* WHERE document_id = ?: the matching rows, in insertion order
RECURSIVE Matching(_, _)
Matching(h, documentId) ==
  IF h = <<>> THEN <<>>
  ELSE IF Head(h).document_id = documentId
         THEN <<Head(h)>> \o Matching(Tail(h), documentId)
         ELSE Matching(Tail(h), documentId)

\* the orders in which the rows of q may be returned
Orderings(q) ==
  {[i \in 1..Len(q) |-> q[f[i]]] :
     f \in {g \in [1..Len(q) -> 1..Len(q)] : \A i, j \in 1..Len(q) : g[i] = g[j] => i = j}}

\* ORDER BY history_timestamp DESC
OrderedDesc(q) ==
  \A i, j \in 1..Len(q) : i < j => q[i].history_timestamp >= q[j].history_timestamp

\* HistoryTracker.getDocumentHistory: WHERE document_id = ? ORDER BY
\* history_timestamp DESC.  The set of the sequences the query may return:
\* the order of rows with equal timestamps is not determined by the statement
getDocumentHistory(documentId) ==
  {q \in Orderings(Matching(historical_documents, documentId)) : OrderedDesc(q)}

-----------------------------------------------------------------------------
(* Pipeline runs and per-document tasks *)

Counters == {"fpDoc", "upDoc", "hist", "fpCal", "upCal", "fpPer", "upPer", "fpTr", "upTr", "upTpl"}

\* stage and sub: the Promise.all the task has started over the attendees
\* ("people") or the transcript lines ("lines"), and where each of its
\* members stands: "detect", "upsert", "done" or "failed"
NewTask ==
  [pc |-> "idle", stage |-> "none", sub |-> <<>>, changed |-> "unset",
   lastHash |-> Undefined, tracked |-> "unset", cnt |-> [c \in Counters |-> 0]]

NoData == BadFile("unread")

\* txn: the run's current batch transaction: "none", "open" or "committed"
NoRun == [pc |-> "none", data |-> NoData, i |-> 0, tasks |-> <<>>, seq |-> FALSE,
          txn |-> "none"]

Bump(t, c) == [t EXCEPT !.cnt[c] = @ + 1]

\* a member of the task's Promise.all has not settled
SubLive(t) == \E j \in 1..Len(t.sub) : t.sub[j] \in {"detect", "upsert"}

TaskLive(t) == t.pc \notin {"idle", "done", "failed"} \/ SubLive(t)

RunActive(r) == runs[r].pc \in {"reading", "process", "chunk"}

\* nothing of any run is pending: no run in progress and no task still running
Quiescent ==
  \A r \in RunIds :
    /\ ~RunActive(r)
    /\ \A k \in 1..Len(runs[r].tasks) : ~TaskLive(runs[r].tasks[k])

\* runs that are in progress or still have a task running
Pending ==
  {r \in RunIds : RunActive(r) \/ \E k \in 1..Len(runs[r].tasks) : TaskLive(runs[r].tasks[k])}

\* the process is running with its connection open (it exits when
\* startMonitoring throws)
alive == mainPc \in {"initial", "monitoring"}

\* cleanup() has closed the watcher and the connection and the process has
\* not exited yet: `await this.cleanup()` yields before `throw error` or
\* process.exit(0), and the promise callbacks that are due run in between
closed == mainPc \in {"closing_failed", "closing_signal"}

running == alive \/ closed

InChunk(run, k) == k > run.i /\ k <= run.i + CHUNK_SIZE /\ k <= Len(run.tasks)

\* crypto.randomUUID(): a value no other call returns
randomUUID(r, k, j) == ToString(<<r, k, j>>)

\* the list the template part calls the template service for: an empty list
\* makes no call and the next list is taken; a call throws, so the lists
\* behind the first one that is not empty are never reached
templateRecords(data, docId) ==
  LET rec == data.templates[docId]
  IN IF ~rec.has THEN <<>>
     ELSE IF Len(rec.panel_templates) > 0 THEN rec.panel_templates
     ELSE IF Len(rec.template_sections) > 0 THEN rec.template_sections
     ELSE rec.document_panels

\* where a document's task next awaits, after the transcript part
AfterTranscripts(doc, data) ==
  IF Len(templateRecords(data, doc.id)) > 0 THEN "tpl" ELSE "done"

AfterCalendar(doc, data) ==
  IF data.transcripts[doc.id].has /\ Len(data.transcripts[doc.id].entries) > 0
    THEN "lines" ELSE AfterTranscripts(doc, data)

AfterDocument(doc, data) ==
  IF doc.cal.has THEN "cal_detect" ELSE AfterCalendar(doc, data)

\* processChunk: if (await hasDocumentChanged(doc)) { trackDocumentHistory; upsertDocument }
afterDetect(changed, doc, data) ==
  IF changed THEN "track_read" ELSE AfterDocument(doc, data)

\* the task arrives at pc; at "people" and "lines" map(async ..) starts one
\* member per attendee or line, all at once
Enter(t, pc, doc, data) ==
  [t EXCEPT !.pc = pc,
            !.stage = IF pc \in {"people", "lines"} THEN pc ELSE "none",
            !.sub = CASE pc = "people" -> [j \in 1..Len(doc.cal.attendees) |-> "detect"]
                      [] pc = "lines" ->
                           [j \in 1..Len(data.transcripts[doc.id].entries) |-> "detect"]
                      [] OTHER -> <<>>]

\* the Person built from attendee j of the document's event: name is
\* `attendee.displayName || null`, role `attendee.organizer ? 'organizer' :
\* 'attendee'`
PersonOf(r, k, j, doc) ==
  LET attendee == doc.cal.attendees[j]
  IN [id |-> randomUUID(r, k, j), document_id |-> doc.id,
      email |-> attendee.email,
      name |-> IF attendee.displayName = "" THEN "null" ELSE attendee.displayName,
      role |-> IF attendee.organizer THEN "organizer" ELSE "attendee"]

-----------------------------------------------------------------------------
(* Initial state *)

NoCall == [class |-> "none", owner |-> "", key |-> <<>>, hash |-> Undefined, entity |-> Undefined,
           prev |-> Undefined, stateBefore |-> EmptyState, result |-> FALSE,
           threw |-> FALSE]

\* trackDocumentHistory has not been called
NoTrack == [called |-> FALSE, doc |-> Undefined, returned |-> FALSE,
            hashes |-> {}, table |-> <<>>]

\* the History Recorder's calls: called .. result describe getDocumentHistory
\* and track describes trackDocumentHistory, whichever returned last (track
\* holds the two tables as they were before the call's last step); pending
\* is the bag of the trackDocumentHistory calls that have read the stored
\* hash and have not returned
NoRetrieval == [clock |-> 0, called |-> FALSE, documentId |-> "", threw |-> FALSE,
                result |-> <<>>, track |-> NoTrack, pending |-> EmptyBag]

\* the chunk loop of processCache is not being followed
NoLoop == [n |-> 0, bad |-> 0, i |-> 0, pc |-> "none", calls |-> <<>>,
           resolved |-> <<>>, started |-> 0, chunks |-> <<>>, commits |-> <<>>,
           progress |-> <<>>]

\* DatabaseConnection before any call: instance is null (0), no handle was
\* opened; returned holds the handles handed out since the last close
NoConnection == [instance |-> 0, schemasInitialized |-> FALSE, handles |-> <<>>,
                 settling |-> {}, returned |-> {}, ops |-> 0,
                 lastCall |-> [path |-> "", threw |-> FALSE, value |-> 0]]

\* nothing has run yet
Fresh ==
  /\ connection = NoConnection
  /\ nWrites = 0
  /\ mainPc = "start"
  /\ instance = "none"
  /\ watcher = FALSE
  /\ runs = [r \in RunIds |-> NoRun]
  /\ lastKnownState = EmptyState
  /\ documents = {}
  /\ historical_documents = <<>>
  /\ document_state_hashes = {}
  /\ calendar_events = {}
  /\ people = {}
  /\ transcript_entries = {}
  /\ lastCall = NoCall
  /\ lastSeen = {}

Init ==
  /\ family \in Families
  /\ file \in InitialOf(family)
  /\ Fresh
  /\ loop = NoLoop
  /\ retrieval = NoRetrieval

-----------------------------------------------------------------------------
(* Change Trigger: startMonitoring and the watch callback *)

\* the database path the ingestor was constructed with
dbPathOf(fam) == IF fam = "nodb" THEN InvalidPath ELSE "test.db"

\* startMonitoring up to the first await of readAndParseCache.  When
\* initializeServices throws (the database cannot be created or opened) no
\* connection is opened and the snapshot is not read: catch, cleanup()
StartMonitoring ==
  /\ mainPc = "start"
  /\ IF CanOpen(dbPathOf(family))
       THEN /\ mainPc' = "initial"
            /\ instance' = "open"
            /\ runs' = [runs EXCEPT ![0] = [NoRun EXCEPT !.pc = "reading", !.seq = TRUE]]
       ELSE /\ mainPc' = "closing_failed"
            /\ instance' = "none"
            /\ runs' = runs
  /\ UNCHANGED <<family, file, nWrites, watcher, lastKnownState, tables, lastCall, lastSeen, loop, retrieval, connection>>

\* a faulty variant: the initial processCache is called but not awaited
initialCacheProcessedUnawaited == runs[0].pc # "none"

\* startMonitoring: `await this.processCache(data)` of the initial load returned
initialCacheProcessed == runs[0].pc = "done"

\* the initial processCache returned: watch(...) and setupCleanup()
RegisterWatcher ==
  /\ mainPc = "initial"
  /\ initialCacheProcessed
  /\ watcher' = TRUE
  /\ mainPc' = "monitoring"
  /\ UNCHANGED <<family, file, nWrites, instance, runs, lastKnownState, tables, lastCall, lastSeen, loop, retrieval, connection>>

\* the initial load threw: catch, cleanup() closes the connection, and
\* `await this.cleanup()` yields
InitialLoadFailed ==
  /\ mainPc = "initial"
  /\ runs[0].pc = "failed"
  /\ instance' = "none"
  /\ mainPc' = "closing_failed"
  /\ UNCHANGED <<family, file, nWrites, watcher, runs, lastKnownState, tables, lastCall, lastSeen, loop, retrieval, connection>>

\* after cleanup(): startMonitoring throws and the entry point's catch calls
\* process.exit(1), or the signal handler calls process.exit(0)
Exit ==
  /\ closed
  /\ mainPc' = IF mainPc = "closing_failed" THEN "failed" ELSE "exited"
  /\ instance' = "none"
  /\ UNCHANGED <<family, file, nWrites, watcher, runs, lastKnownState, tables, lastCall, lastSeen, loop, retrieval, connection>>

\* the snapshot file is rewritten while no watcher is registered
FileWriteUnwatched(f) ==
  /\ nWrites < MaxChanges
  /\ mainPc = "initial"
  /\ ~watcher
  /\ file' = f
  /\ nWrites' = nWrites + 1
  /\ UNCHANGED <<family, mainPc, instance, watcher, runs, lastKnownState, tables, lastCall, lastSeen, loop, retrieval, connection>>

\* the snapshot file is rewritten and the watch callback is invoked with 'change'
FileChanged(f) ==
  /\ nWrites < MaxChanges
  /\ alive
  /\ watcher
  /\ Cardinality(Pending) < MaxActive
  /\ file' = f
  /\ nWrites' = nWrites + 1
  /\ runs' = [runs EXCEPT ![nWrites + 1] =
                [NoRun EXCEPT !.pc = "reading", !.seq = Quiescent]]
  /\ UNCHANGED <<family, mainPc, instance, watcher, lastKnownState, tables, lastCall, lastSeen, loop, retrieval, connection>>

\* SIGINT or SIGTERM arrives.  Once setupCleanup has run, the handler calls
\* cleanup(), which closes the watcher and the connection at once, and
\* `await this.cleanup()` yields before process.exit(0); before that no
\* handler is installed and the process is terminated
Shutdown ==
  /\ family = "signals"
  /\ alive
  /\ mainPc' = IF mainPc = "monitoring" THEN "closing_signal" ELSE "killed"
  /\ watcher' = FALSE
  /\ instance' = "none"
  /\ UNCHANGED <<family, file, nWrites, runs, lastKnownState, tables, lastCall, lastSeen, loop, retrieval, connection>>

-----------------------------------------------------------------------------
(* Snapshot Reader and Batch Ingestion Engine *)

\* readAndParseCache completes, then processCache up to its first chunk
ReadDone(r) ==
  /\ alive
  /\ runs[r].pc = "reading"
  /\ runs' = [runs EXCEPT ![r] =
       IF ~readAndParseCacheOk(file) \/ ~hasStateDocuments(file)
         THEN [@ EXCEPT !.pc = "failed", !.data = file]
         ELSE [@ EXCEPT !.pc = IF Len(documentsOf(file)) = 0 THEN "done" ELSE "process",
                        !.data = file,
                        !.i = 0,
                        !.tasks = [k \in 1..Len(documentsOf(file)) |-> NewTask]]]
  /\ UNCHANGED <<family, file, nWrites, mainPc, instance, watcher, lastKnownState, tables, lastCall, lastSeen, loop, retrieval, connection>>

\* processChunk: `await DatabaseConnection.getInstance(this.dbPath)`, which
\* opens a connection when none is held, then
\* db.transaction(() => Promise.all(chunk.map(async ...)))(): BEGIN, every
\* document's task runs to its first await, COMMIT
ChunkStart(r) ==
  /\ running
  /\ runs[r].pc = "process"
  /\ instance' = "open"
  /\ runs' = [runs EXCEPT ![r].pc = "chunk",
                          ![r].txn = "committed",
                          ![r].tasks = [k \in 1..Len(@) |->
                               IF InChunk(runs[r], k) THEN [@[k] EXCEPT !.pc = "detect"]
                               ELSE @[k]]]
  /\ UNCHANGED <<family, file, nWrites, mainPc, watcher, lastKnownState, tables, lastCall, lastSeen, loop, retrieval, connection>>

\* a faulty variant: processChunk logs the error and does not rethrow it
afterChunkSwallowed(i, n, rejected) ==
  IF i + CHUNK_SIZE < n THEN "process" ELSE "done"

\* processCache after `await this.processChunk(chunk, data)` for the chunk at
\* i of n documents: a rejection leaves the loop, else i += CHUNK_SIZE
afterChunk(i, n, rejected) ==
  IF rejected THEN "failed"
  ELSE IF i + CHUNK_SIZE < n THEN "process" ELSE "done"

\* every task of the chunk resolved: the loop of processCache goes on
ChunkOk(r) ==
  /\ running
  /\ runs[r].pc = "chunk"
  /\ \A k \in 1..Len(runs[r].tasks) : InChunk(runs[r], k) => runs[r].tasks[k].pc = "done"
  /\ runs' = [runs EXCEPT ![r].i = @ + CHUNK_SIZE,
                          ![r].pc = afterChunk(runs[r].i, Len(runs[r].tasks), FALSE)]
  /\ UNCHANGED <<family, file, nWrites, mainPc, instance, watcher, lastKnownState, tables, lastCall, lastSeen, loop, retrieval, connection>>

\* a task of the chunk rejected: Promise.all rejects, processChunk and
\* processCache throw; the other tasks of the chunk keep running
ChunkFail(r) ==
  /\ running
  /\ runs[r].pc = "chunk"
  /\ \E k \in 1..Len(runs[r].tasks) : InChunk(runs[r], k) /\ runs[r].tasks[k].pc = "failed"
  /\ runs' = [runs EXCEPT ![r].pc = afterChunk(runs[r].i, Len(runs[r].tasks), TRUE)]
  /\ UNCHANGED <<family, file, nWrites, mainPc, instance, watcher, lastKnownState, tables, lastCall, lastSeen, loop, retrieval, connection>>

-----------------------------------------------------------------------------
(* processChunk: the task of document k of run r, one action per await *)

TaskAt(r, k, pc) ==
  /\ running
  /\ k \in 1..Len(runs[r].tasks)
  /\ runs[r].tasks[k].pc = pc

\* member j of the Promise.all the task has started stands at step
SubAt(r, k, stage, j, step) ==
  /\ running
  /\ k \in 1..Len(runs[r].tasks)
  /\ runs[r].tasks[k].stage = stage
  /\ j \in 1..Len(runs[r].tasks[k].sub)
  /\ runs[r].tasks[k].sub[j] = step

DocOf(r, k) == documentsOf(runs[r].data)[k]

SetTask(r, k, t) == runs' = [runs EXCEPT ![r].tasks[k] = t]

YesNo(b) == IF b THEN "yes" ELSE "no"

\* stateTrackingService.hasDocumentChanged(doc)
DocDetect(r, k) ==
  /\ TaskAt(r, k, "detect")
  /\ LET doc == DocOf(r, k)
         t == runs[r].tasks[k]
         hash == getHash(StringifyDocument(doc))
         changed == hasChanged(storedUnder(lastKnownState, "documentHashes", <<doc.id>>), hash)
     IN /\ lastKnownState' = storeAfter(lastKnownState, "documentHashes", <<doc.id>>, hash)
        /\ SetTask(r, k,
             Enter([(IF changed THEN Bump(t, "fpDoc") ELSE t) EXCEPT
                      !.changed = YesNo(changed)],
                   afterDetect(changed, doc, runs[r].data), doc, runs[r].data))
  /\ UNCHANGED <<family, file, nWrites, mainPc, instance, watcher, tables, lastCall, lastSeen, loop, retrieval, connection>>

\* trackDocumentHistory: getLatestHash.get(doc.id), then detectChangedFields
\* up to its await of getDocumentHash
TrackRead(r, k) ==
  /\ TaskAt(r, k, "track_read")
  /\ SetTask(r, k, [runs[r].tasks[k] EXCEPT
                      !.lastHash = Get(document_state_hashes, DocOf(r, k).id),
                      !.pc = "track_detect"])
  /\ UNCHANGED <<family, file, nWrites, mainPc, instance, watcher, lastKnownState, tables, lastCall, lastSeen, loop, retrieval, connection>>

\* the rows getDocumentFromId may read: its statement runs on the handle the
\* services were given; once that handle is closed the statement either still
\* answers or throws, and the method's catch turns the throw into null
documentsRead == IF closed THEN {documents, {}} ELSE {documents}

\* trackDocumentHistory: detectChangedFields, return false when it is empty
TrackDetect(r, k) ==
  /\ TaskAt(r, k, "track_detect")
  /\ \E tbl \in documentsRead :
       LET t == runs[r].tasks[k]
           doc == DocOf(r, k)
           changedFields == detectChangedFields(doc, t.lastHash, tbl)
       IN SetTask(r, k,
            IF Len(changedFields) = 0
              THEN [t EXCEPT !.pc = "upsert", !.tracked = "no"]
              ELSE [t EXCEPT !.pc = "track_write"])
  /\ UNCHANGED <<family, file, nWrites, mainPc, instance, watcher, lastKnownState, tables, lastCall, lastSeen, loop, retrieval, connection>>

\* CURRENT_TIMESTAMP at a capture into tbl, in whole seconds: the clock never
\* runs backwards, so the capture falls in the second of the latest capture
\* (less than a second has passed, as between the documents of one run) or
\* in a later one.  The seconds are numbered by rank
currentTimestamp(tbl) ==
  IF Len(tbl) = 0 THEN {1}
  ELSE {tbl[Len(tbl)].history_timestamp, tbl[Len(tbl)].history_timestamp + 1}

\* trackDocumentHistory: the transaction of updateHash and insertHistory
TrackWrite(r, k) ==
  /\ TaskAt(r, k, "track_write")
  /\ LET doc == DocOf(r, k)
     IN /\ document_state_hashes' =
             updateHash(document_state_hashes, doc.id, getDocumentHash(doc))
        /\ \E now \in currentTimestamp(historical_documents) :
             historical_documents' =
               insertHistory(historical_documents,
                             historyRecord(randomUUID(r, k, 0), doc, now))
        /\ SetTask(r, k, [Bump(runs[r].tasks[k], "hist") EXCEPT !.pc = "upsert",
                                                                !.tracked = "yes"])
  /\ UNCHANGED <<family, file, nWrites, mainPc, instance, watcher, lastKnownState, documents,
                 calendar_events, people, transcript_entries, lastCall, lastSeen, loop, retrieval, connection>>

\* trackDocumentHistory: getLatestHash.get or the transaction of updateHash
\* and insertHistory throws (the database is busy, full or unreadable).  The
\* transaction is rolled back, the error is logged and thrown again, and the
\* task's own catch throws it on: the task rejects
TrackFail(r, k) ==
  /\ family = "faults"
  /\ running
  /\ k \in 1..Len(runs[r].tasks)
  /\ runs[r].tasks[k].pc \in {"track_read", "track_write"}
  /\ SetTask(r, k, [runs[r].tasks[k] EXCEPT !.pc = "failed", !.tracked = "threw"])
  /\ UNCHANGED <<family, file, nWrites, mainPc, instance, watcher, lastKnownState, tables, lastCall, lastSeen, loop, retrieval, connection>>

\* a faulty variant: trackDocumentHistory is called without await, so the
\* upsert may run while the call is still on its way
historyUnawaited(t) == t.pc \in {"track_read", "track_detect", "track_write", "upsert"}

\* await trackDocumentHistory(doc): the task goes on once the call returned
historyAwaited(t) == t.pc = "upsert"

\* documentService.upsertDocument(doc)
UpsertDoc(r, k) ==
  /\ running
  /\ k \in 1..Len(runs[r].tasks)
  /\ historyAwaited(runs[r].tasks[k])
  /\ LET doc == DocOf(r, k)
     IN /\ documents' = upsertDocument(documents, doc)
        /\ SetTask(r, k, Enter(Bump(runs[r].tasks[k], "upDoc"),
                               AfterDocument(doc, runs[r].data), doc, runs[r].data))
  /\ UNCHANGED <<family, file, nWrites, mainPc, instance, watcher, lastKnownState,
                 historical_documents, document_state_hashes, calendar_events, people,
                 transcript_entries, lastCall, lastSeen, loop, retrieval, connection>>

\* stateTrackingService.hasCalendarEventChanged(doc.id, eventObj)
CalDetect(r, k) ==
  /\ TaskAt(r, k, "cal_detect")
  /\ LET doc == DocOf(r, k)
         t == runs[r].tasks[k]
         hash == getHash(StringifyEvent(doc.cal, TRUE, doc.id))
         changed == hasChanged(storedUnder(lastKnownState, "calendarHashes", <<doc.id>>), hash)
     IN /\ lastKnownState' = storeAfter(lastKnownState, "calendarHashes", <<doc.id>>, hash)
        /\ SetTask(r, k,
             Enter(IF changed THEN Bump(t, "fpCal") ELSE t,
                   IF changed THEN "cal_upsert" ELSE AfterCalendar(doc, runs[r].data),
                   doc, runs[r].data))
  /\ UNCHANGED <<family, file, nWrites, mainPc, instance, watcher, tables, lastCall, lastSeen, loop, retrieval, connection>>

\* calendarService.upsertCalendarEvent(eventObj), then
\* Promise.all(eventObj.attendees.map(async ..))
CalUpsert(r, k) ==
  /\ TaskAt(r, k, "cal_upsert")
  /\ LET doc == DocOf(r, k)
     IN /\ calendar_events' = upsertCalendarEvent(calendar_events, doc.cal, doc.id)
        /\ SetTask(r, k,
             Enter(Bump(runs[r].tasks[k], "upCal"),
                   IF Len(doc.cal.attendees) > 0 THEN "people"
                   ELSE AfterCalendar(doc, runs[r].data),
                   doc, runs[r].data))
  /\ UNCHANGED <<family, file, nWrites, mainPc, instance, watcher, lastKnownState, documents,
                 historical_documents, document_state_hashes, people, transcript_entries,
                 lastCall, lastSeen, loop, retrieval, connection>>

\* member j of the task's Promise.all takes the step `step`; the task goes on
\* to pc once every member is done
Settled(t, j, step, pc, doc, data) ==
  LET u == [t EXCEPT !.sub[j] = step]
  IN IF u.pc \in {"people", "lines"} /\ \A i \in 1..Len(u.sub) : u.sub[i] = "done"
       THEN Enter(u, pc, doc, data)
       ELSE u

\* member j of the task's Promise.all rejects: Promise.all rejects and the
\* task rejects with it, while the other members go on
Rejected(t, j) == [t EXCEPT !.sub[j] = "failed", !.pc = "failed"]

\* attendee j has been dealt with: the attendees were all started at once
\* and the calendar part ends when the last of them is done
AfterPerson(t, j, doc, data) == Settled(t, j, "done", AfterCalendar(doc, data), doc, data)

\* stateTrackingService.hasPersonChanged(doc.id, person)
PersonDetect(r, k, j) ==
  /\ SubAt(r, k, "people", j, "detect")
  /\ LET doc == DocOf(r, k)
         t == runs[r].tasks[k]
         person == PersonOf(r, k, j, doc)
         hash == getHash(StringifyPerson(person))
         key == <<doc.id, person.id>>
         changed == hasChanged(storedUnder(lastKnownState, "personHashes", key), hash)
     IN /\ lastKnownState' = storeAfter(lastKnownState, "personHashes", key, hash)
        /\ SetTask(r, k,
             IF storeThrows(lastKnownState, "personHashes", key, hash) THEN Rejected(t, j)
             ELSE IF changed THEN [Bump(t, "fpPer") EXCEPT !.sub[j] = "upsert"]
             ELSE AfterPerson(t, j, doc, runs[r].data))
  /\ UNCHANGED <<family, file, nWrites, mainPc, instance, watcher, tables, lastCall, lastSeen, loop, retrieval, connection>>

\* personService.upsertPerson(person)
PersonUpsert(r, k, j) ==
  /\ SubAt(r, k, "people", j, "upsert")
  /\ LET doc == DocOf(r, k)
         t == runs[r].tasks[k]
     IN /\ people' = upsertPerson(people, PersonOf(r, k, j, doc))
        /\ SetTask(r, k, AfterPerson(Bump(t, "upPer"), j, doc, runs[r].data))
  /\ UNCHANGED <<family, file, nWrites, mainPc, instance, watcher, lastKnownState, documents,
                 historical_documents, document_state_hashes, calendar_events,
                 transcript_entries, lastCall, lastSeen, loop, retrieval, connection>>

\* transcript line j has been dealt with: the lines were all started at
\* once and the transcript part ends when the last of them is done
AfterEntry(t, j, doc, data) == Settled(t, j, "done", AfterTranscripts(doc, data), doc, data)

\* stateTrackingService.hasTranscriptChanged(doc.id, entry)
TranscriptDetect(r, k, j) ==
  /\ SubAt(r, k, "lines", j, "detect")
  /\ LET doc == DocOf(r, k)
         t == runs[r].tasks[k]
         entry == runs[r].data.transcripts[doc.id].entries[j]
         hash == getHash(StringifyEntry(entry))
         key == <<doc.id, entry.id>>
         changed == hasChanged(storedUnder(lastKnownState, "transcriptHashes", key), hash)
     IN /\ lastKnownState' = storeAfter(lastKnownState, "transcriptHashes", key, hash)
        /\ SetTask(r, k,
             IF storeThrows(lastKnownState, "transcriptHashes", key, hash) THEN Rejected(t, j)
             ELSE IF changed THEN [Bump(t, "fpTr") EXCEPT !.sub[j] = "upsert"]
             ELSE AfterEntry(t, j, doc, runs[r].data))
  /\ UNCHANGED <<family, file, nWrites, mainPc, instance, watcher, tables, lastCall, lastSeen, loop, retrieval, connection>>

\* transcriptService.upsertTranscriptEntry(doc.id, entry)
TranscriptUpsert(r, k, j) ==
  /\ SubAt(r, k, "lines", j, "upsert")
  /\ LET doc == DocOf(r, k)
         t == runs[r].tasks[k]
         entry == runs[r].data.transcripts[doc.id].entries[j]
     IN /\ transcript_entries' = upsertTranscriptEntry(transcript_entries, doc.id, entry)
        /\ SetTask(r, k, AfterEntry(Bump(t, "upTr"), j, doc, runs[r].data))
  /\ UNCHANGED <<family, file, nWrites, mainPc, instance, watcher, lastKnownState, documents,
                 historical_documents, document_state_hashes, calendar_events, people,
                 lastCall, lastSeen, loop, retrieval, connection>>

\* the template part: Promise.all(list.map(...)) calls the template service
\* once for every record of the list before any rejection is seen.  The
\* prepared statements were never created (TemplateService.initialize is not
\* called), so every call throws and the task rejects
TemplateUpsert(r, k) ==
  /\ TaskAt(r, k, "tpl")
  /\ LET t == runs[r].tasks[k]
         calls == Len(templateRecords(runs[r].data, DocOf(r, k).id))
     IN SetTask(r, k, [t EXCEPT !.cnt["upTpl"] = @ + calls, !.pc = "failed"])
  /\ UNCHANGED <<family, file, nWrites, mainPc, instance, watcher, lastKnownState, tables, lastCall, lastSeen, loop, retrieval, connection>>

\* a statement of the services runs after cleanup() has closed their handle:
\* it either still takes effect (the actions above) or throws, and then the
\* task (j = 0) or the member j of its Promise.all rejects
ClosedStatement(r, k, j) ==
  /\ closed
  /\ k \in 1..Len(runs[r].tasks)
  /\ LET t == runs[r].tasks[k]
     IN IF j = 0
          THEN /\ t.pc \in {"track_read", "track_write", "upsert", "cal_upsert"}
               /\ SetTask(r, k, [t EXCEPT !.pc = "failed",
                                          !.tracked = IF t.pc \in {"track_read", "track_write"}
                                                        THEN "threw" ELSE @])
          ELSE /\ j \in 1..Len(t.sub)
               /\ t.sub[j] = "upsert"
               /\ SetTask(r, k, Rejected(t, j))
  /\ UNCHANGED <<family, file, nWrites, mainPc, instance, watcher, lastKnownState, tables, lastCall, lastSeen, loop, retrieval, connection>>

-----------------------------------------------------------------------------
(* Specification of the pipeline *)

Next ==
  \/ StartMonitoring
  \/ RegisterWatcher
  \/ InitialLoadFailed
  \/ Exit
  \/ Shutdown
  \/ \E f \in FilesOf(family) : FileWriteUnwatched(f)
  \/ \E f \in FilesOf(family) : FileChanged(f)
  \/ \E r \in RunIds : ReadDone(r)
  \/ \E r \in RunIds : ChunkStart(r)
  \/ \E r \in RunIds : ChunkOk(r)
  \/ \E r \in RunIds : ChunkFail(r)
  \/ \E r \in RunIds : \E k \in 1..Len(runs[r].tasks) : DocDetect(r, k)
  \/ \E r \in RunIds : \E k \in 1..Len(runs[r].tasks) : TrackRead(r, k)
  \/ \E r \in RunIds : \E k \in 1..Len(runs[r].tasks) : TrackDetect(r, k)
  \/ \E r \in RunIds : \E k \in 1..Len(runs[r].tasks) : TrackWrite(r, k)
  \/ \E r \in RunIds : \E k \in 1..Len(runs[r].tasks) : TrackFail(r, k)
  \/ \E r \in RunIds : \E k \in 1..Len(runs[r].tasks) : UpsertDoc(r, k)
  \/ \E r \in RunIds : \E k \in 1..Len(runs[r].tasks) : CalDetect(r, k)
  \/ \E r \in RunIds : \E k \in 1..Len(runs[r].tasks) : CalUpsert(r, k)
  \/ \E r \in RunIds : \E k \in 1..Len(runs[r].tasks) : \E j \in 1..Len(runs[r].tasks[k].sub) : PersonDetect(r, k, j)
  \/ \E r \in RunIds : \E k \in 1..Len(runs[r].tasks) : \E j \in 1..Len(runs[r].tasks[k].sub) : PersonUpsert(r, k, j)
  \/ \E r \in RunIds : \E k \in 1..Len(runs[r].tasks) : \E j \in 1..Len(runs[r].tasks[k].sub) : TranscriptDetect(r, k, j)
  \/ \E r \in RunIds : \E k \in 1..Len(runs[r].tasks) : \E j \in 1..Len(runs[r].tasks[k].sub) : TranscriptUpsert(r, k, j)
  \/ \E r \in RunIds : \E k \in 1..Len(runs[r].tasks) : TemplateUpsert(r, k)
  \/ \E r \in RunIds : \E k \in 1..Len(runs[r].tasks) :
       \E j \in 0..Len(runs[r].tasks[k].sub) : ClosedStatement(r, k, j)

Spec == Init /\ [][Next]_vars

-----------------------------------------------------------------------------
(* Definitions used by the properties *)

Started == {r \in RunIds : runs[r].pc # "none"}

\* the run started last before run r
PrevRun(r) == CHOOSE p \in Started : p < r /\ \A q \in Started : q < r => q <= p

HasPrev(r) == \E p \in Started : p < r

TasksOf(r) == 1..Len(runs[r].tasks)

\* store writes made by a task: rows inserted or updated
Writes(t) == t.cnt["upDoc"] + t.cnt["hist"] + t.cnt["upCal"] + t.cnt["upPer"] + t.cnt["upTr"]

\* upsert calls made by a task, whatever the entity class
Upserts(t) == t.cnt["upDoc"] + t.cnt["upCal"] + t.cnt["upPer"] + t.cnt["upTr"] + t.cnt["upTpl"]

\* run r started after everything before it had ended, and nothing started
\* while it was pending
Solo(r) == runs[r].seq /\ \A q \in Started : q > r => runs[q].seq

\* run r re-reads what the run before it read, after that run has fully
\* ended (a snapshot with templates never ends a run otherwise than failed)
Reingests(r) ==
  /\ r \in Started
  /\ HasPrev(r)
  /\ Solo(r)
  /\ runs[r].data.kind = "ok"
  /\ runs[r].data = runs[PrevRun(r)].data

\* exactly the initial load and one later run took place, one after the other
TwoRuns(r) ==
  /\ Started = {0, r}
  /\ r # 0
  /\ runs[0].pc = "done"
  /\ runs[r].pc = "done"
  /\ runs[r].seq
  /\ Quiescent

\* the document with identifier d in the data of run r, if any
DocIndex(r, d) == {k \in 1..Len(runs[r].data.docs) : runs[r].data.docs[k].id = d}

-----------------------------------------------------------------------------
(* C1 *)

\* C1: batch atomicity - when document N of a batch fails, the writes for
\* the documents before it in the batch are either all in the store or none
\* of them is, and the batches committed before stay complete.
BatchAtomicity ==
  \A r \in RunIds :
    runs[r].pc = "failed" /\ (\E k \in TasksOf(r) : runs[r].tasks[k].pc = "failed") =>
      LET N == CHOOSE k \in TasksOf(r) :
                 /\ runs[r].tasks[k].pc = "failed"
                 /\ \A q \in TasksOf(r) : runs[r].tasks[q].pc = "failed" => k <= q
          before == {k \in TasksOf(r) : InChunk(runs[r], k) /\ k < N}
      IN /\ \/ \A k \in before : runs[r].tasks[k].pc = "done"
            \/ \A k \in before : Writes(runs[r].tasks[k]) = 0
         /\ \A k \in TasksOf(r) : k <= runs[r].i => runs[r].tasks[k].pc = "done"

-----------------------------------------------------------------------------
(* C2 *)

\* C2: history precedes overwrite - after a document was ingested by two
\* successive runs with different content, its history holds exactly one
\* record, and that record is the state the first run persisted.
HistoryPrecedesOverwrite ==
  \A r \in RunIds : \A d \in DocIds :
    TwoRuns(r) =>
      \A k0 \in DocIndex(0, d) : \A k1 \in DocIndex(r, d) :
        runs[0].data.docs[k0].title # runs[r].data.docs[k1].title =>
          \A history \in getDocumentHistory(d) :
            /\ Len(history) = 1
            /\ history[1].title = runs[0].data.docs[k0].title
            /\ history[1].type = runs[0].data.docs[k0].type

-----------------------------------------------------------------------------
(* C3 *)

\* C3: idempotence - a run that re-ingests the snapshot of the run before it
\* creates no historical record and makes no upsert call of any class.
Idempotence ==
  \A r \in RunIds :
    Reingests(r) =>
      \A k \in TasksOf(r) :
        runs[r].tasks[k].cnt["hist"] = 0 /\ Upserts(runs[r].tasks[k]) = 0

-----------------------------------------------------------------------------
(* C4 *)

\* C4: single flight - at most one pipeline run is in progress at any time.
SingleFlight == Cardinality({r \in RunIds : RunActive(r)}) <= 1

-----------------------------------------------------------------------------
(* C5 *)

\* C5: malformed input resilience - a run whose snapshot is not valid JSON,
\* whose inner payload is not valid JSON or which lacks state.documents
\* fails, and performs no store write: it never starts a document task.
MalformedInputNoWrite ==
  \A r \in RunIds :
    runs[r].data.kind \in BadKinds =>
      /\ runs[r].pc = "failed"
      /\ runs[r].tasks = <<>>

\* a malformed snapshot was read while the store held documents
MalformedInputWitness ==
  \E r \in RunIds :
    /\ runs[r].data.kind \in {"notjson", "innerbad", "nodocs"}
    /\ runs[r].pc = "failed"
    /\ documents # {}

-----------------------------------------------------------------------------
(* C6 *)

\* C6: a failed run never stops monitoring - once startMonitoring has dealt
\* with a failed run, the initial load included, the watcher is registered
\* and the process goes on.
FailedRunKeepsMonitoring ==
  (mainPc \in {"monitoring", "failed"} /\ \E r \in RunIds : runs[r].pc = "failed") =>
    (watcher /\ mainPc = "monitoring")

-----------------------------------------------------------------------------
(* C7 *)

\* the documents of run r and of the run before it that have the same id
SamePairs(r) ==
  {<<k0, k1>> \in (1..Len(runs[PrevRun(r)].data.docs)) \X (1..Len(runs[r].data.docs)) :
     runs[PrevRun(r)].data.docs[k0].id = runs[r].data.docs[k1].id}

\* run r ingested, alone, after the run before it had ingested
Successive(r) ==
  /\ r \in Started
  /\ HasPrev(r)
  /\ Solo(r)
  /\ runs[r].pc = "done"
  /\ runs[PrevRun(r)].pc = "done"

\* C7: change sensitivity - re-ingesting a document with a relevant field
\* changed stores exactly one new fingerprint and makes exactly one upsert
\* of it; re-ingesting it with only a volatile field changed does neither.
ChangeSensitivity ==
  \A r \in RunIds :
    Successive(r) =>
      \A pr \in SamePairs(r) :
        LET old == runs[PrevRun(r)].data.docs[pr[1]]
            new == runs[r].data.docs[pr[2]]
            t == runs[r].tasks[pr[2]]
        IN /\ (old.title # new.title \/ old.type # new.type) =>
                (t.cnt["fpDoc"] = 1 /\ t.cnt["upDoc"] = 1)
           /\ (old.title = new.title /\ old.type = new.type /\ old.cal = new.cal
                 /\ old.content # new.content) =>
                (t.cnt["fpDoc"] = 0 /\ t.cnt["upDoc"] = 0)

-----------------------------------------------------------------------------
(* C8 *)

Tracking == {"track_read", "track_detect", "track_write"}

\* C8: a record is created only in a run in which the detector reported the
\* document changed, exactly one record is created per detected change (by
\* the task that detected it, once its recording has returned), and none
\* when the document is re-ingested unchanged.
ExactlyOneRecordPerChange ==
  \A r \in RunIds : \A k \in TasksOf(r) :
    LET t == runs[r].tasks[k]
    IN /\ t.changed = "no" => t.cnt["hist"] = 0
       /\ (t.changed = "yes" /\ t.pc \notin Tracking /\ t.tracked # "threw") =>
            t.cnt["hist"] = 1

-----------------------------------------------------------------------------
(* C9 *)

\* C9: the first ingestion records no history - after the initial snapshot
\* went into the empty store, every document has a row and the historical
\* table is empty.
FirstIngestionNoHistory ==
  (Started = {0} /\ runs[0].pc = "done" /\ Quiescent) =>
    /\ \A k \in 1..Len(runs[0].data.docs) : Has(documents, runs[0].data.docs[k].id)
    /\ historical_documents = <<>>

-----------------------------------------------------------------------------
(* The Change Detector on its own: calls of the four has*Changed methods *)

\* the owners of the transcript lines the detector is called with: a
\* document id is any string of the snapshot, "__proto__" included
DetectorOwners == {"d1", ProtoKey}

DetectorDocs ==
  {Doc("d1", t, "a", "c1", NoCal) : t \in {"t1", "t2"}}
    \cup {Doc("d2", "t1", "a", "c1", NoCal),
          Doc(ProtoKey, "t1", "a", "c1", NoCal),
          Reordered(Doc("d1", "t1", "a", "c1", NoCal)),
          WithPlan(Doc("d1", "t1", "a", "c1", NoCal), "null")}

DetectorEvents == {Cal("e1", sm, <<>>) : sm \in {"s1", "s2"}}

DetectorEntries == {Entry("l1", tx) : tx \in {"hello", "bye"}}

DetectorPersons ==
  {[id |-> "p1", document_id |-> d, email |-> "x", name |-> "X", role |-> "attendee"] :
     d \in DocIds}
    \cup {[id |-> "p1", document_id |-> "d1", email |-> "x", name |-> "Y",
           role |-> "attendee"]}

\* the entity observed last under the key, if any
SeenLast(class, key) ==
  IF \E e \in lastSeen : e.key = <<class>> \o key
    THEN (CHOOSE e \in lastSeen : e.key = <<class>> \o key).entity
    ELSE Undefined

\* one call: compare, store when changed, return the comparison (or throw
\* at the store)
Observe(class, field, owner, key, entity, hash) ==
  /\ lastCall' = [class |-> class, owner |-> owner, key |-> key, hash |-> hash, entity |-> entity,
                  prev |-> SeenLast(class, key),
                  stateBefore |-> lastKnownState,
                  result |-> hasChanged(storedUnder(lastKnownState, field, key), hash),
                  threw |-> storeThrows(lastKnownState, field, key, hash)]
  /\ lastKnownState' = storeAfter(lastKnownState, field, key, hash)
  /\ lastSeen' = {e \in lastSeen : e.key # <<class>> \o key}
                   \cup {[key |-> <<class>> \o key, val |-> hash, entity |-> entity]}
  /\ UNCHANGED <<family, file, nWrites, mainPc, instance, watcher, runs, tables, loop, retrieval, connection>>

\* transcriptHashes[docId][entry.id], personHashes[docId][person.id]
scopedKey(docId, id) == <<docId, id>>

hasDocumentChanged(doc) ==
  Observe("document", "documentHashes", doc.id, <<doc.id>>, doc,
          getHash(StringifyDocument(doc)))

hasCalendarEventChanged(docId, event) ==
  Observe("calendar", "calendarHashes", docId, <<docId>>, event,
          getHash(StringifyEvent(event, TRUE, docId)))

hasTranscriptChanged(docId, entry) ==
  Observe("transcript", "transcriptHashes", docId, scopedKey(docId, entry.id), entry,
          getHash(StringifyEntry(entry)))

hasPersonChanged(docId, person) ==
  Observe("person", "personHashes", docId, scopedKey(docId, person.id), person,
          getHash(StringifyPerson(person)))

InitDetector ==
  /\ Init
  /\ family = "suite"
  /\ file = FileInitial

NextDetector ==
  \/ \E doc \in DetectorDocs : hasDocumentChanged(doc)
  \/ \E event \in DetectorEvents : hasCalendarEventChanged("d1", event)
  \/ \E d \in DetectorOwners : \E entry \in DetectorEntries : hasTranscriptChanged(d, entry)
  \/ \E person \in DetectorPersons : hasPersonChanged(person.document_id, person)

SpecDetector == InitDetector /\ [][NextDetector]_vars

-----------------------------------------------------------------------------
(* C10 *)

FieldOf(class) ==
  CASE class = "document" -> "documentHashes"
    [] class = "calendar" -> "calendarHashes"
    [] class = "transcript" -> "transcriptHashes"
    [] class = "person" -> "personHashes"

Classes == {"document", "calendar", "transcript", "person"}

\* C10: the decision rule - a call returns true exactly when no fingerprint
\* is stored under the key or the stored one differs from the new one, and
\* then stores the new one; otherwise it returns false and leaves the store
\* as it was.  So each key holds the fingerprint observed last for it.
DetectorRule ==
  /\ lastCall.class \in Classes =>
       LET field == FieldOf(lastCall.class)
           old == lastCall.stateBefore[field]
           absent == \A e \in old : e.key # lastCall.key
           differs == \E e \in old : e.key = lastCall.key /\ e.val # lastCall.hash
       IN /\ lastCall.result = (absent \/ differs)
          /\ lastCall.result =>
               lastKnownState = [lastCall.stateBefore EXCEPT ![field] =
                  {e \in old : e.key # lastCall.key}
                     \cup {[key |-> lastCall.key, val |-> lastCall.hash]}]
          /\ ~lastCall.result => lastKnownState = lastCall.stateBefore
  /\ \A class \in Classes :
       /\ \A e \in lastKnownState[FieldOf(class)] :
            \E s \in lastSeen : s.key = <<class>> \o e.key /\ s.val = e.val
       /\ \A s \in lastSeen : Head(s.key) = class =>
            \E e \in lastKnownState[FieldOf(class)] :
               <<class>> \o e.key = s.key /\ e.val = s.val

-----------------------------------------------------------------------------
(* C11 *)

Range(q) == {q[i] : i \in 1..Len(q)}

\* the same keys with the same values, whatever the order of the keys
SameFields(a, b) ==
  /\ Range(a.keys) = Range(b.keys)
  /\ \A k \in Range(a.keys) : ValueOf(a, k) = ValueOf(b, k)
  /\ a.cal = b.cal

\* the last call was hasDocumentChanged and the key had been observed before
Reobserved == lastCall.class = "document" /\ lastCall.prev # Undefined

\* C11: fingerprinting ignores key order - a document observed after one
\* with the same fields and values, in whatever key order, is reported
\* unchanged.
KeyOrderIgnored ==
  (Reobserved /\ SameFields(lastCall.prev, lastCall.entity)) => ~lastCall.result

-----------------------------------------------------------------------------
(* C12 *)

\* document b is document a with the key subscription_plan_id, holding
\* null, deleted
NullRemoved(a, b) ==
  /\ "subscription_plan_id" \in Range(a.keys)
  /\ a.subscription_plan_id = "null"
  /\ b.keys = SelectSeq(a.keys, LAMBDA k : k # "subscription_plan_id")
  /\ \A k \in Range(b.keys) : ValueOf(a, k) = ValueOf(b, k)
  /\ a.cal = b.cal

\* C12: a document observed with subscription_plan_id null and observed
\* next with that key removed is reported changed.
NullThenAbsentChanged ==
  (Reobserved /\ NullRemoved(lastCall.prev, lastCall.entity)) => lastCall.result

\* the document was observed with the null field and next without the key
NullThenAbsentWitness ==
  Reobserved /\ NullRemoved(lastCall.prev, lastCall.entity)

-----------------------------------------------------------------------------
(* C13 *)

\* a and b differ at most in subscription_plan_id being null in one and
\* absent from the other
NullOrAbsent(a, b) == NullRemoved(a, b) \/ NullRemoved(b, a)

\* C13: null and absent are the same - re-ingesting a document that differs
\* from its last ingested version only in a nullable field being null
\* instead of absent, or absent instead of null, stores no fingerprint and
\* causes no history record and no upsert.
NullAbsentEquivalent ==
  \A r \in RunIds :
    Successive(r) =>
      \A pr \in SamePairs(r) :
        LET old == runs[PrevRun(r)].data.docs[pr[1]]
            new == runs[r].data.docs[pr[2]]
            t == runs[r].tasks[pr[2]]
        IN NullOrAbsent(old, new) =>
             (t.cnt["fpDoc"] = 0 /\ t.cnt["upDoc"] = 0 /\ t.cnt["hist"] = 0)

-----------------------------------------------------------------------------
(* C14 *)

\* the documents a snapshot holds, whatever the shape of state.documents
Held(data) == Range(data.docs)

\* the initial load of an array or object snapshot has ended, tasks included
Loaded ==
  /\ Started = {0}
  /\ runs[0].pc = "done"
  /\ Quiescent
  /\ runs[0].data.shape \in {"array", "object"}

\* C14: shape normalisation - the store after ingesting a snapshot into the
\* empty store depends on the documents it holds only, not on whether
\* state.documents is an array or an id-keyed object: every table holds the
\* rows of the held documents and nothing else.
ShapeNormalization ==
  Loaded =>
    LET held == Held(runs[0].data)
        data == runs[0].data
    IN /\ documents = {[key |-> d.id, val |-> [id |-> d.id, title |-> d.title, type |-> d.type]] :
                         d \in held}
       /\ {[document_id |-> h.document_id, title |-> h.title, type |-> h.type] :
             h \in Range(historical_documents)}
            = {[document_id |-> d.id, title |-> d.title, type |-> d.type] : d \in held}
       /\ Len(historical_documents) = Cardinality(held)
       /\ {e.key : e \in document_state_hashes} = {d.id : d \in held}
       /\ {e.key : e \in calendar_events} = {d.cal.id : d \in {x \in held : x.cal.has}}
       /\ {e.val.document_id : e \in people} =
            {d.id : d \in {x \in held : x.cal.has /\ Len(x.cal.attendees) > 0}}
       /\ {e.val.document_id : e \in transcript_entries} =
            {d.id : d \in {x \in held : data.transcripts[x.id].has}}

\* two documents were loaded from an array
ShapeNormalizationWitness ==
  /\ Loaded
  /\ runs[0].data.shape = "array"
  /\ Cardinality(documents) = 2

-----------------------------------------------------------------------------
(* C15 *)

\* C15: state.documents that is neither an array nor an id-keyed object is
\* rejected - a run that read such a snapshot fails, it never ends as a run
\* over zero documents.
PrimitiveDocumentsRejected ==
  \A r \in RunIds :
    runs[r].data.shape \in {"number", "true"} => runs[r].pc = "failed"

-----------------------------------------------------------------------------
(* C16 *)

\* C16: every store write made for a batch happens inside the batch's
\* transaction - whenever a step changes a table, a transaction is open.
WritesInsideTransaction ==
  [][tables' # tables => \E r \in RunIds : runs[r].txn = "open"]_vars

-----------------------------------------------------------------------------
(* The chunk loop of processCache on its own, over document lists longer  *)
(* than CHUNK_SIZE.  A list is given by its length n and the position bad  *)
(* of the document whose task throws (0: none); processChunk is followed   *)
(* from its call to its resolution or rejection.                           *)

MaxBulk == 201

Min(a, b) == IF a < b THEN a ELSE b

InitLoop ==
  /\ family = "suite"
  /\ file = FileInitial
  /\ Fresh
  /\ retrieval = NoRetrieval
  /\ \E n \in 0..MaxBulk : \E bad \in 0..n :
       loop = [NoLoop EXCEPT !.n = n, !.bad = bad,
                             !.pc = IF n = 0 THEN "done" ELSE "process"]

\* chunk.length
ChunkLen(c) == c.to - c.from + 1

\* a faulty variant: the slice takes one document more
sliceInclusive(i, n) == [from |-> i + 1, to |-> Min(i + CHUNK_SIZE + 1, n)]

\* documents.slice(i, i + CHUNK_SIZE) of n documents: the positions, counted
\* from 1, of its first and last document
slice(i, n) == [from |-> i + 1, to |-> Min(i + CHUNK_SIZE, n)]

\* processCache: chunk = documents.slice(i, i + CHUNK_SIZE); processChunk
\* starts the task of every document of the chunk
LoopChunkStart ==
  /\ loop.pc = "process"
  /\ loop' = [loop EXCEPT !.pc = "chunk",
                          !.calls = Append(@, loop.i),
                          !.chunks = Append(@, slice(loop.i, loop.n)),
                          !.commits = Append(@, Len(loop.chunks) + 1),
                          !.progress = Append(@, "none"),
                          !.started = slice(loop.i, loop.n).to]
  /\ UNCHANGED <<family, file, nWrites, mainPc, instance, watcher, runs, lastKnownState,
                 tables, lastCall, lastSeen, retrieval, connection>>

\* a task of the chunk passed last settles, its writes made: of the tasks of
\* a chunk, none, some or all have settled.  The tasks of a rejected chunk
\* go on after the rejection
LoopTaskSettle ==
  /\ loop.pc \in {"chunk", "failed"}
  /\ loop.chunks # <<>>
  /\ LET j == Len(loop.chunks)
         now == loop.progress[j]
     IN /\ now # "all"
        /\ \E next \in {"some", "all"} :
             /\ next = "some" => now = "none" /\ ChunkLen(loop.chunks[j]) > 1
             /\ (next = "all" /\ now = "none") => ChunkLen(loop.chunks[j]) = 1
             /\ loop' = [loop EXCEPT !.progress[j] = next]
  /\ UNCHANGED <<family, file, nWrites, mainPc, instance, watcher, runs, lastKnownState,
                 tables, lastCall, lastSeen, retrieval, connection>>

\* a faulty variant: the promise of the chunk's tasks is not awaited
chunkSettledUnawaited(rejected, progress) == TRUE

\* `await db.transaction(() => Promise.all(..))()`: Promise.all resolves when
\* every task has resolved and rejects as soon as one has rejected
chunkSettled(rejected, progress) ==
  IF rejected THEN progress # "none" ELSE progress = "all"

\* processChunk resolves, or rejects when the chunk holds the bad document
LoopChunkEnd ==
  /\ loop.pc = "chunk"
  /\ LET rejected == loop.bad > loop.i /\ loop.bad <= loop.i + CHUNK_SIZE
     IN /\ chunkSettled(rejected, loop.progress[Len(loop.progress)])
        /\ loop' = [loop EXCEPT !.pc = afterChunk(loop.i, loop.n, rejected),
                                !.resolved = IF rejected THEN @ ELSE Append(@, loop.i),
                                !.i = IF rejected THEN @ ELSE @ + CHUNK_SIZE]
  /\ UNCHANGED <<family, file, nWrites, mainPc, instance, watcher, runs, lastKnownState,
                 tables, lastCall, lastSeen, retrieval, connection>>

NextLoop == LoopChunkStart \/ LoopTaskSettle \/ LoopChunkEnd

SpecLoop == InitLoop /\ [][NextLoop]_vars

-----------------------------------------------------------------------------
(* C17 *)

\* the index at which the batch holding the bad document starts
BadChunk == CHUNK_SIZE * ((loop.bad - 1) \div CHUNK_SIZE)

\* C17: when a batch fails the run stops there - the run ends failed and
\* never done, no document after the failing batch is ever started, every
\* batch is passed to processChunk once and in order, and the batches that
\* resolved before the failure stay as they are.
FailedBatchStopsRun ==
  /\ \A j \in 1..Len(loop.calls) : loop.calls[j] = (j - 1) * CHUNK_SIZE
  /\ loop.bad > 0 =>
       /\ loop.pc # "done"
       /\ loop.started <= Min(BadChunk + CHUNK_SIZE, loop.n)
       /\ loop.pc = "failed" =>
            /\ loop.calls = loop.resolved \o <<BadChunk>>
            /\ \A j \in 1..Len(loop.resolved) : loop.resolved[j] = (j - 1) * CHUNK_SIZE
  /\ (loop.bad = 0 /\ loop.pc = "done") => loop.calls = loop.resolved

\* the second batch failed while a third batch was still to come
FailedBatchWitness ==
  /\ loop.pc = "failed"
  /\ Len(loop.resolved) = 1
  /\ loop.n > BadChunk + CHUNK_SIZE

-----------------------------------------------------------------------------
(* C18 *)

\* a batch of run r is in flight: processChunk has not returned, or a task
\* of the batch is still running
InFlight(r) ==
  runs[r].pc = "chunk" \/ \E k \in TasksOf(r) : TaskLive(runs[r].tasks[k])

\* C18: graceful shutdown - once the shutdown handler has closed the
\* connection, and when it ends the process, no batch is left in the middle
\* of its writes.
GracefulShutdown ==
  mainPc \in {"closing_signal", "exited"} => \A r \in RunIds : ~InFlight(r)

-----------------------------------------------------------------------------
(* C19 *)

\* C19: the current state is the latest known truth - after a run has
\* upserted a changed document, alone and after the run before it, every
\* column of the document's row equals the field of the version just
\* ingested.
CurrentStateIsLatest ==
  \A r \in RunIds :
    Successive(r) =>
      \A k \in TasksOf(r) :
        runs[r].tasks[k].cnt["upDoc"] = 1 =>
          LET doc == DocOf(r, k)
              row == Get(documents, doc.id)
          IN /\ row.title = doc.title
             /\ row.type = doc.type

-----------------------------------------------------------------------------
(* C20 *)

\* the tasks that have made their upsertDocument call for document d
Upserters(d) ==
  {rk \in RunIds \X (1..MaxDocs) :
     /\ rk[2] \in TasksOf(rk[1])
     /\ DocOf(rk[1], rk[2]).id = d
     /\ runs[rk[1]].tasks[rk[2]].cnt["upDoc"] > 0}

\* C20: upsert keeps one row per identifier - whatever the upsertDocument
\* calls made so far and however they interleaved, the documents table
\* holds exactly one row for each identifier upserted, and no other row.
OneRowPerId ==
  \A d \in DocIds :
    Cardinality({e \in documents : e.key = d}) = (IF Upserters(d) = {} THEN 0 ELSE 1)

\* two overlapping runs have both upserted the same document, with
\* different titles
OneRowPerIdWitness ==
  \E d \in DocIds : \E a, b \in Upserters(d) :
    /\ a[1] < b[1]
    /\ ~runs[b[1]].seq
    /\ DocOf(a[1], a[2]).title # DocOf(b[1], b[2]).title

-----------------------------------------------------------------------------
(* C21 *)

\* the e-mail addresses of the attendees seen for document d in the
\* snapshots read so far
AttendeesSeen(d) ==
  UNION {{doc.cal.attendees[j].email : j \in 1..Len(doc.cal.attendees)} :
           doc \in {x \in UNION {Range(runs[r].data.docs) : r \in Started} : x.id = d}}

\* the people rows of document d
PeopleOf(d) == {e \in people : e.val.document_id = d}

\* C21: participants have a stable identity - when the runs follow one
\* another, the number of people rows of a document never exceeds the number
\* of distinct attendees seen for it, even when the owning calendar event
\* changes.
StableParticipants ==
  (\A r \in Started : runs[r].seq) =>
    \A d \in DocIds : Cardinality(PeopleOf(d)) <= Cardinality(AttendeesSeen(d))

-----------------------------------------------------------------------------
(* C22 *)

\* the template artifacts of the document of task k of run r are those the
\* run before r read for the same document
SameTemplates(r, k) ==
  /\ runs[PrevRun(r)].data.kind = "ok"
  /\ runs[PrevRun(r)].data.templates[DocOf(r, k).id] = runs[r].data.templates[DocOf(r, k).id]

\* C22: template artifacts follow detect-then-upsert - a run that follows
\* the run before it makes no template upsert call for a document whose
\* template artifacts are those the run before read.
TemplatesDetectThenUpsert ==
  \A r \in RunIds :
    (r \in Started /\ HasPrev(r) /\ Solo(r)) =>
      \A k \in TasksOf(r) :
        SameTemplates(r, k) => runs[r].tasks[k].cnt["upTpl"] = 0

-----------------------------------------------------------------------------
(* C23 *)

Keys(m) == {e.key : e \in m}

\* the identifiers of the documents of the snapshots read by the runs so far
IngestedIds == UNION {{doc.id : doc \in Range(documentsOf(runs[r].data))} : r \in Started}

\* every run started so far has ended successfully, tasks included
AllSucceeded ==
  /\ Started # {}
  /\ \A r \in Started : runs[r].pc = "done"
  /\ Quiescent

\* no step removes a row of a current-state table or an entry of the
\* Fingerprint Store
NoKeyRemoved ==
  /\ Keys(documents) \subseteq Keys(documents')
  /\ Keys(calendar_events) \subseteq Keys(calendar_events')
  /\ Keys(people) \subseteq Keys(people')
  /\ Keys(transcript_entries) \subseteq Keys(transcript_entries')
  /\ Keys(document_state_hashes) \subseteq Keys(document_state_hashes')
  /\ Keys(lastKnownState.documentHashes) \subseteq Keys(lastKnownState'.documentHashes)
  /\ Keys(lastKnownState.calendarHashes) \subseteq Keys(lastKnownState'.calendarHashes)
  /\ Keys(lastKnownState.transcriptHashes) \subseteq Keys(lastKnownState'.transcriptHashes)
  /\ Keys(lastKnownState.personHashes) \subseteq Keys(lastKnownState'.personHashes)

\* C23: no retraction - no step deletes a current-state row or a
\* Fingerprint Store entry, and once every ingestion so far has succeeded
\* the document identifiers in the store are exactly those of all the
\* snapshots ingested.
NoRetraction ==
  /\ [](AllSucceeded => Keys(documents) = IngestedIds)
  /\ [][NoKeyRemoved]_vars

\* a later snapshot no longer held a document of the one before it, and the
\* document's row and fingerprint are still there
NoRetractionWitness ==
  /\ AllSucceeded
  /\ \E r \in Started : \E d \in DocIds :
       /\ HasPrev(r)
       /\ DocIndex(PrevRun(r), d) # {}
       /\ DocIndex(r, d) = {}
       /\ runs[r].data.docs # <<>>
       /\ Has(documents, d)
       /\ Has(lastKnownState.documentHashes, <<d>>)

-----------------------------------------------------------------------------
(* The History Recorder on its own: trackDocumentHistory and               *)
(* getDocumentHistory called in any order while the clock of the store     *)
(* advances; several captures may fall within one second.                  *)

MaxRecords == 2

MaxSeconds == 1

HistoryDocs ==
  {Doc("d1", "t1", "a", "c1", NoCal), Doc("d1", "t2", "a", "c1", NoCal),
   Doc("d2", "t1", "a", "c1", NoCal), Doc("", "t1", "a", "c1", NoCal)}

InitHistory ==
  /\ family = "suite"
  /\ file = FileInitial
  /\ Fresh
  /\ loop = NoLoop
  /\ retrieval = NoRetrieval

\* CURRENT_TIMESTAMP moves on to the next second
ClockTick ==
  /\ retrieval.clock < MaxSeconds
  /\ retrieval' = [retrieval EXCEPT !.clock = @ + 1]
  /\ UNCHANGED <<family, file, nWrites, mainPc, instance, watcher, runs, lastKnownState,
                 tables, lastCall, lastSeen, loop, connection>>

\* trackDocumentHistory returned: the record of the last call
TrackReturned(doc, returned) ==
  [retrieval EXCEPT !.called = FALSE, !.documentId = "", !.threw = FALSE, !.result = <<>>,
                    !.track = [called |-> TRUE, doc |-> doc, returned |-> returned,
                               hashes |-> document_state_hashes,
                               table |-> historical_documents]]

\* HistoryTracker.trackDocumentHistory(doc) up to its first await: false at
\* once for a document without id, else getLatestHash.get(doc.id) and the
\* call waits for detectChangedFields
CallTrackDocumentHistory(doc) ==
  /\ IF doc.id = ""
       THEN retrieval' = TrackReturned(doc, FALSE)
       ELSE LET lastHash == Get(document_state_hashes, doc.id)
            IN /\ BagCardinality(retrieval.pending) < MaxActive
               /\ Len(detectChangedFields(doc, lastHash, documents)) > 0
                    => Len(historical_documents) + BagCardinality(retrieval.pending)
                         < MaxRecords
               /\ retrieval' = [retrieval EXCEPT !.pending =
                    @ (+) SetToBag({[doc |-> doc, lastHash |-> lastHash]})]
  /\ UNCHANGED <<family, file, nWrites, mainPc, instance, watcher, runs, lastKnownState,
                 tables, lastCall, lastSeen, loop, connection>>

\* trackDocumentHistory after its awaits, for the pending call c: false
\* when detectChangedFields found no field; else the transaction of
\* updateHash and insertHistory, and true
ResumeTrackDocumentHistory(c) ==
  /\ BagIn(c, retrieval.pending)
  /\ LET doc == c.doc
         changedFields == detectChangedFields(doc, c.lastHash, documents)
         returned == Len(changedFields) > 0
     IN /\ document_state_hashes' =
             IF returned
               THEN updateHash(document_state_hashes, doc.id, getDocumentHash(doc))
               ELSE document_state_hashes
        /\ historical_documents' =
             IF returned
               THEN insertHistory(historical_documents,
                                  historyRecord(ToString(Len(historical_documents) + 1), doc,
                                                retrieval.clock))
               ELSE historical_documents
        /\ retrieval' = [TrackReturned(doc, returned) EXCEPT
                           !.pending = @ (-) SetToBag({c})]
  /\ UNCHANGED <<family, file, nWrites, mainPc, instance, watcher, runs, lastKnownState,
                 documents, calendar_events, people, transcript_entries, lastCall, lastSeen,
                 loop, connection>>

\* HistoryTracker.getDocumentHistory(documentId): throws on an empty
\* identifier, else returns the rows selected
CallGetDocumentHistory(documentId) ==
  /\ \E q \in IF documentId = "" THEN {<<>>} ELSE getDocumentHistory(documentId) :
       retrieval' = [retrieval EXCEPT !.called = TRUE, !.documentId = documentId,
                                      !.threw = (documentId = ""), !.result = q,
                                      !.track = NoTrack]
  /\ UNCHANGED <<family, file, nWrites, mainPc, instance, watcher, runs, lastKnownState,
                 tables, lastCall, lastSeen, loop, connection>>

NextHistory ==
  \/ ClockTick
  \/ \E doc \in HistoryDocs : CallTrackDocumentHistory(doc)
  \/ \E c \in BagToSet(retrieval.pending) : ResumeTrackDocumentHistory(c)
  \/ \E documentId \in DocIds \cup {""} : CallGetDocumentHistory(documentId)

SpecHistory == InitHistory /\ [][NextHistory]_vars

-----------------------------------------------------------------------------
(* C24 *)

\* the position at which a row was captured into the table
CaptureIndex(table, row) == CHOOSE n \in 1..Len(table) : table[n] = row

\* C24: history retrieval - getDocumentHistory(documentId) returns exactly
\* the records whose back-reference is documentId, each once, and of any two
\* of them the one captured later comes first.
HistoryRetrieval ==
  (retrieval.called /\ ~retrieval.threw) =>
    LET result == retrieval.result
        table == historical_documents
    IN /\ Range(result) = {row \in Range(table) : row.document_id = retrieval.documentId}
       /\ Len(result) = Cardinality(Range(result))
       /\ \A i, j \in 1..Len(result) :
            i < j => CaptureIndex(table, result[i]) > CaptureIndex(table, result[j])

-----------------------------------------------------------------------------
(* C25 *)

\* sequence a is the beginning of sequence b
IsPrefix(a, b) == Len(a) <= Len(b) /\ SubSeq(b, 1, Len(a)) = a

\* C25: the history log is append-only - every step of the pipeline leaves
\* the historical records there were in place and unmodified, so the number
\* of records of a document never decreases.
HistoryAppendOnly == [][IsPrefix(historical_documents, historical_documents')]_vars

\* a second record of a document was added after its first one
HistoryAppendOnlyWitness ==
  \E i, j \in 1..Len(historical_documents) :
    /\ i < j
    /\ historical_documents[i].document_id = historical_documents[j].document_id
    /\ historical_documents[i].title # historical_documents[j].title

-----------------------------------------------------------------------------
(* C26 *)

\* C26: initial load precedes watching - while the watcher is registered, or
\* any notification-driven run has started, the initial run has ended
\* successfully with every document task done; and once startMonitoring has
\* returned the store holds the documents of the initial snapshot.
InitialLoadPrecedesWatching ==
  /\ (watcher \/ \E r \in Started : r # 0) =>
       /\ runs[0].pc = "done"
       /\ \A k \in TasksOf(0) : runs[0].tasks[k].pc = "done"
  /\ mainPc = "monitoring" =>
       \A k \in TasksOf(0) : Has(documents, DocOf(0, k).id)

\* the watcher was registered after an initial load of two documents, and a
\* notification-driven run has started
InitialLoadWitness ==
  /\ mainPc = "monitoring"
  /\ watcher
  /\ Len(runs[0].tasks) = 2
  /\ \E r \in Started : r # 0

-----------------------------------------------------------------------------
(* DatabaseConnection on its own: getInstance and closeConnection called   *)
(* in any order, with any path.  A handle is a position in                 *)
(* connection.handles; instance = 0 stands for null.                       *)

MaxOps == 4


\* a faulty variant: every call opens a connection
instanceMissingAlways(inst) == TRUE

\* getInstance: if (!this.instance)
instanceMissing(inst) == inst = 0

\* the call completes: what it threw or returned
Completed(conn, dbPath, threw, value) ==
  [conn EXCEPT !.lastCall = [path |-> dbPath, threw |-> threw, value |-> value],
               !.returned = IF threw \/ value = 0 THEN @ ELSE @ \cup {value}]

\* instance.close(); instance = null
Closed(conn) ==
  [conn EXCEPT !.handles = IF conn.instance = 0 THEN @
                           ELSE [@ EXCEPT ![conn.instance].open = FALSE],
               !.instance = 0,
               !.returned = {}]

InitConnection ==
  /\ family = "suite"
  /\ file = FileInitial
  /\ Fresh
  /\ loop = NoLoop
  /\ retrieval = NoRetrieval

\* DatabaseConnection.getInstance(dbPath), up to its return, its throw or
\* its `await this.initializeSchemas(this.instance)`; whether the schema
\* statements succeed is decided there, inside the promise executor
getInstance(dbPath) ==
  /\ connection.ops < MaxOps
  /\ LET conn == [connection EXCEPT !.ops = @ + 1]
         h == Len(connection.handles) + 1
         opened == [conn EXCEPT !.handles = Append(@, [path |-> dbPath, open |-> TRUE]),
                                !.instance = h]
     IN IF ~instanceMissing(connection.instance)
          THEN connection' = Completed(conn, dbPath, FALSE, connection.instance)
        ELSE IF ~CanOpen(dbPath)
          THEN connection' = Completed(conn, dbPath, TRUE, 0)
        ELSE IF connection.schemasInitialized
          THEN connection' = Completed(opened, dbPath, FALSE, h)
        ELSE \E ok \in BOOLEAN :
               connection' = [opened EXCEPT !.settling =
                                @ \cup {[handle |-> h, path |-> dbPath, ok |-> ok]}]
  /\ UNCHANGED <<family, file, nWrites, mainPc, instance, watcher, runs, lastKnownState,
                 tables, lastCall, lastSeen, loop, retrieval>>

\* getInstance after the await: schemasInitialized = true and return
\* this.instance, or the catch block: close the instance, null it, throw
getInstanceResume(c) ==
  /\ c \in connection.settling
  /\ LET conn == [connection EXCEPT !.settling = @ \ {c}]
     IN connection' =
          IF c.ok
            THEN Completed([conn EXCEPT !.schemasInitialized = TRUE], c.path, FALSE,
                           connection.instance)
            ELSE Completed(Closed(conn), c.path, TRUE, 0)
  /\ UNCHANGED <<family, file, nWrites, mainPc, instance, watcher, runs, lastKnownState,
                 tables, lastCall, lastSeen, loop, retrieval>>

\* DatabaseConnection.closeConnection()
closeConnection ==
  /\ connection.ops < MaxOps
  /\ connection.instance # 0
  /\ connection' = [Closed(connection) EXCEPT !.schemasInitialized = FALSE, !.ops = @ + 1]
  /\ UNCHANGED <<family, file, nWrites, mainPc, instance, watcher, runs, lastKnownState,
                 tables, lastCall, lastSeen, loop, retrieval>>

NextConnection ==
  \/ \E dbPath \in DbPaths : getInstance(dbPath)
  \/ \E c \in connection.settling : getInstanceResume(c)
  \/ closeConnection

SpecConnection == InitConnection /\ [][NextConnection]_vars

-----------------------------------------------------------------------------
(* C27 *)

\* the handles that are open
OpenHandles == {h \in 1..Len(connection.handles) : connection.handles[h].open}

\* C27: connection reuse - the getInstance calls completed since the last
\* close all returned the same connection, and at most one connection is
\* open at any time.
ConnectionReuse ==
  /\ Cardinality(connection.returned) <= 1
  /\ Cardinality(OpenHandles) <= 1
  /\ connection.returned \subseteq OpenHandles

\* after a close and a reopening, two calls with different paths were
\* answered with the one connection
ConnectionReuseWitness ==
  /\ Len(connection.handles) = 2
  /\ connection.returned = {2}
  /\ connection.lastCall.value = 2
  /\ connection.lastCall.path # connection.handles[2].path

-----------------------------------------------------------------------------
(* C28 *)

\* C28: getInstance called with a path at which no database can be created
\* or opened rejects, whatever calls preceded it.
InvalidPathRejected ==
  connection.lastCall.path = InvalidPath => connection.lastCall.threw

-----------------------------------------------------------------------------
(* C29 *)

\* C29: batch partitioning - the batches passed to processChunk are
\* consecutive slices of the document list: none is empty, each holds
\* CHUNK_SIZE documents except possibly the one ending the list, each begins
\* where the one before it ended, and a run that ends successfully has passed
\* every document, in exactly one batch.
BatchPartitioning ==
  LET c == loop.chunks
  IN /\ \A j \in 1..Len(c) :
          /\ ChunkLen(c[j]) >= 1
          /\ ChunkLen(c[j]) <= CHUNK_SIZE
          /\ ChunkLen(c[j]) < CHUNK_SIZE => c[j].to = loop.n
          /\ c[j].from = IF j = 1 THEN 1 ELSE c[j - 1].to + 1
     /\ loop.pc = "done" =>
          IF loop.n = 0 THEN c = <<>> ELSE c[Len(c)].to = loop.n

\* a list of 201 documents went through as batches of 100, 100 and 1
BatchPartitioningWitness ==
  /\ loop.pc = "done"
  /\ Len(loop.chunks) = 3
  /\ ChunkLen(loop.chunks[2]) = CHUNK_SIZE
  /\ ChunkLen(loop.chunks[3]) = 1

-----------------------------------------------------------------------------
(* C30 *)

\* C30: batches of one run commit in submission order - the transactions of
\* the batches are committed in the order the batches are passed, and no
\* task of a batch has made its writes unless every task of the batch
\* before it has made its writes.
BatchesInOrder ==
  /\ loop.commits = [j \in 1..Len(loop.chunks) |-> j]
  /\ \A j \in 1..Len(loop.progress) :
       (j > 1 /\ loop.progress[j] # "none") => loop.progress[j - 1] = "all"

\* tasks of the second batch are writing, after the first batch
BatchesInOrderWitness ==
  /\ Len(loop.progress) = 2
  /\ loop.progress[2] = "some"
  /\ loop.bad > CHUNK_SIZE

-----------------------------------------------------------------------------
(* C31 *)

\* C31: history before overwrite, within a run - a task upserts its document
\* only after its trackDocumentHistory call has returned, so the record that
\* call writes is in the table before the row is overwritten, and no task
\* writes a record without the call having returned true.
HistoryWriteBeforeUpsert ==
  \A r \in RunIds : \A k \in TasksOf(r) :
    LET t == runs[r].tasks[k]
    IN /\ t.cnt["upDoc"] > 0 =>
            /\ t.changed = "yes"
            /\ t.tracked # "unset"
            /\ t.tracked = "yes" =>
                 \E i \in 1..Len(historical_documents) :
                   historical_documents[i].id = randomUUID(r, k, 0)
       /\ t.cnt["hist"] > 0 => t.tracked = "yes"

\* a run after the first one recorded a changed document and then overwrote
\* its row
HistoryWriteBeforeUpsertWitness ==
  \E r \in RunIds \ {0} : \E k \in TasksOf(r) :
    LET t == runs[r].tasks[k]
    IN /\ t.tracked = "yes"
       /\ t.cnt["hist"] = 1
       /\ t.cnt["upDoc"] = 1
       /\ Get(documents, DocOf(r, k).id).title = DocOf(r, k).title

-----------------------------------------------------------------------------
(* C32 *)

\* the tasks whose trackDocumentHistory call threw
Thrown == {rk \in RunIds \X (1..MaxDocs) :
             rk[2] \in TasksOf(rk[1]) /\ runs[rk[1]].tasks[rk[2]].tracked = "threw"}

\* C32: a failed history recording aborts the batch - when recording the
\* history of a document throws, the run does not end successfully, the
\* document's row is not overwritten by that run, no hash entry is left
\* without its record, and once the batch has failed none of its documents
\* has a write in the store.
HistoryFailureAbortsBatch ==
  \A rk \in Thrown :
    LET r == rk[1]
        t == runs[r].tasks[rk[2]]
    IN /\ runs[r].pc \in {"chunk", "failed"}
       /\ t.cnt["upDoc"] = 0 /\ t.cnt["hist"] = 0
       /\ \A e \in document_state_hashes :
            \E i \in 1..Len(historical_documents) :
              historical_documents[i].document_id = e.key
       /\ runs[r].pc = "failed" =>
            \A q \in TasksOf(r) : InChunk(runs[r], q) => Writes(runs[r].tasks[q]) = 0

-----------------------------------------------------------------------------
(* C33 *)

\* a step of the program that is ready to run: a continuation of
\* startMonitoring, of a pipeline run or of one of its tasks
Continue ==
  \/ StartMonitoring
  \/ RegisterWatcher
  \/ InitialLoadFailed
  \/ Exit
  \/ \E r \in RunIds : ReadDone(r)
  \/ \E r \in RunIds : ChunkStart(r)
  \/ \E r \in RunIds : ChunkOk(r)
  \/ \E r \in RunIds : ChunkFail(r)
  \/ \E r \in RunIds : \E k \in 1..Len(runs[r].tasks) : DocDetect(r, k)
  \/ \E r \in RunIds : \E k \in 1..Len(runs[r].tasks) : TrackRead(r, k)
  \/ \E r \in RunIds : \E k \in 1..Len(runs[r].tasks) : TrackDetect(r, k)
  \/ \E r \in RunIds : \E k \in 1..Len(runs[r].tasks) : TrackWrite(r, k)
  \/ \E r \in RunIds : \E k \in 1..Len(runs[r].tasks) : TrackFail(r, k)
  \/ \E r \in RunIds : \E k \in 1..Len(runs[r].tasks) : UpsertDoc(r, k)
  \/ \E r \in RunIds : \E k \in 1..Len(runs[r].tasks) : CalDetect(r, k)
  \/ \E r \in RunIds : \E k \in 1..Len(runs[r].tasks) : CalUpsert(r, k)
  \/ \E r \in RunIds : \E k \in 1..Len(runs[r].tasks) : \E j \in 1..Len(runs[r].tasks[k].sub) : PersonDetect(r, k, j)
  \/ \E r \in RunIds : \E k \in 1..Len(runs[r].tasks) : \E j \in 1..Len(runs[r].tasks[k].sub) : PersonUpsert(r, k, j)
  \/ \E r \in RunIds : \E k \in 1..Len(runs[r].tasks) : \E j \in 1..Len(runs[r].tasks[k].sub) : TranscriptDetect(r, k, j)
  \/ \E r \in RunIds : \E k \in 1..Len(runs[r].tasks) : \E j \in 1..Len(runs[r].tasks[k].sub) : TranscriptUpsert(r, k, j)
  \/ \E r \in RunIds : \E k \in 1..Len(runs[r].tasks) : TemplateUpsert(r, k)
  \/ \E r \in RunIds : \E k \in 1..Len(runs[r].tasks) :
       \E j \in 0..Len(runs[r].tasks[k].sub) : ClosedStatement(r, k, j)

\* the steps of the pipeline and of its surroundings: the file is rewritten,
\* a termination signal is delivered
NextLive ==
  \/ Continue
  \/ Shutdown
  \/ \E f \in FilesOf(family) : FileWriteUnwatched(f)
  \/ \E f \in FilesOf(family) : FileChanged(f)

\* the pipeline, in every family, under the event loop's scheduling: a step
\* of the program that is ready is run
SpecLive == Init /\ [][NextLive]_vars /\ WF_vars(Continue)

\* a termination signal has ended, or is ending, the process
Signalled == mainPc \in {"closing_signal", "exited", "killed"}

\* C33: every run finishes and the trigger returns to Idle - from some
\* moment on no pipeline run is in progress and the process is monitoring
\* the file, whether its runs, the initial one or those started by a
\* notification, succeeded or failed; unless a termination signal was
\* delivered or no run was ever started.  (The snapshot is rewritten
\* finitely often.)
EveryRunFinishes ==
  <>[](\/ Signalled
       \/ runs[0].pc = "none"
       \/ mainPc = "monitoring" /\ \A r \in RunIds : ~RunActive(r))

-----------------------------------------------------------------------------
(* C34 *)

\* the key the last call was made for: the owning document, and for a
\* transcript line or a participant its own id within that document
CallKey ==
  IF lastCall.class \in {"document", "calendar"}
    THEN <<lastCall.owner>>
    ELSE <<lastCall.owner, lastCall.entity.id>>

\* the keys a fingerprint of the class may be looked up under
DetectorKeys(class) ==
  IF class \in {"document", "calendar"}
    THEN {<<d>> : d \in DocIds \cup {ProtoKey}}
    ELSE {<<d, id>> : d \in DocIds \cup {ProtoKey}, id \in {"l1", "p1"}}

\* C34: fingerprint keys are independent - a call leaves the fingerprint
\* found under every other key as it was: those of the other classes, and in
\* its own class those of every key but its own, owning document included.
FingerprintKeysIndependent ==
  lastCall.class \in Classes =>
    \A class \in Classes : \A key \in DetectorKeys(class) :
      (class # lastCall.class \/ key # CallKey) =>
        storedUnder(lastKnownState, FieldOf(class), key)
          = storedUnder(lastCall.stateBefore, FieldOf(class), key)

-----------------------------------------------------------------------------
(* C35 *)

\* no two runs overlapped: each run started when nothing was pending
NoOverlap == \A r \in Started : runs[r].seq

\* C35: fingerprints never run ahead of the store - when the runs, none of
\* which overlapped another, have ended, a document whose fingerprint is the
\* stored one has a row with that content; and a document whose history
\* recording failed is reported changed when the same snapshot is ingested
\* again.
FingerprintsBehindStore ==
  (mainPc = "monitoring" /\ NoOverlap) =>
    /\ Quiescent =>
         \A r \in Started : \A k \in TasksOf(r) :
           LET doc == DocOf(r, k)
           IN Get(lastKnownState.documentHashes, <<doc.id>>) = getHash(StringifyDocument(doc))
                => /\ Has(documents, doc.id)
                   /\ Get(documents, doc.id).title = doc.title
    /\ \A r1, r2 \in Started : \A k1 \in TasksOf(r1) : \A k2 \in TasksOf(r2) :
         (/\ r1 < r2
          /\ DocOf(r1, k1) = DocOf(r2, k2)
          /\ runs[r1].tasks[k1].tracked = "threw"
          /\ runs[r2].tasks[k2].changed # "unset")
           => runs[r2].tasks[k2].changed = "yes"

-----------------------------------------------------------------------------
(* C36 *)

\* the run started last; it read the snapshot file last, or read what the
\* run reading last also read
LastRun == CHOOSE r \in Started : \A q \in Started : q <= r

\* C36: convergence under overlapping notifications - once every run has
\* ended successfully and no task is left, each document of the snapshot
\* read last has a row with that snapshot's content.
Convergence ==
  (mainPc = "monitoring" /\ AllSucceeded) =>
    \A k \in TasksOf(LastRun) :
      LET doc == DocOf(LastRun, k)
      IN /\ Has(documents, doc.id)
         /\ Get(documents, doc.id).title = doc.title

-----------------------------------------------------------------------------
(* C37 *)

\* C37: the content hash and the history log change together - a
\* trackDocumentHistory call that returned true added exactly one record, of
\* the document it was given, and set that document's hash entry to the hash
\* of the record's content, leaving the other entries alone; a call that
\* returned false changed neither table; and a document has a hash entry
\* exactly when it has a historical record.
HashAndHistoryTogether ==
  /\ retrieval.track.called =>
       LET c == retrieval.track
           n == Len(historical_documents)
       IN IF c.returned
            THEN /\ n = Len(c.table) + 1
                 /\ SubSeq(historical_documents, 1, n - 1) = c.table
                 /\ historical_documents[n].document_id = c.doc.id
                 /\ historical_documents[n].title = c.doc.title
                 /\ document_state_hashes =
                      {e \in c.hashes : e.key # c.doc.id}
                        \cup {[key |-> c.doc.id,
                               val |-> getDocumentHash(historical_documents[n])]}
            ELSE /\ historical_documents = c.table
                 /\ document_state_hashes = c.hashes
  /\ \A d \in DocIds \cup {""} :
       Has(document_state_hashes, d)
         <=> \E i \in 1..Len(historical_documents) : historical_documents[i].document_id = d

\* two calls for d1 that overlapped have both returned true and left two
\* records of the same content, and a later call with that content has
\* returned false
HashAndHistoryWitness ==
  /\ retrieval.track.called
  /\ ~retrieval.track.returned
  /\ retrieval.track.doc.id = "d1"
  /\ Len(historical_documents) = 2
  /\ historical_documents[1].document_id = "d1"
  /\ historical_documents[1].title = historical_documents[2].title
  /\ historical_documents[2].document_id = "d1"

-----------------------------------------------------------------------------
(* C38 *)

\* C38: the singleton recovers from close and from failure - whenever no
\* instance is retained, after closeConnection or after a getInstance call
\* that failed, schemasInitialized is false as well, so that the next
\* getInstance call with a valid path, which opens a new connection,
\* initializes the schemas on it.
ConnectionRecovers ==
  connection.instance = 0 => ~connection.schemasInitialized

====
